---- MODULE Spec2Model ----
(***************************************************************************)
(* Knowledge-graph construction engine of Knowledge-Graph-RAG.             *)
(*                                                                         *)
(* The model follows src/construct.py (KnowledgeGraphBuilder), the edge    *)
(* classes of src/Edge.py and the node classes of src/Node.py.             *)
(*                                                                         *)
(* Conventions                                                             *)
(*  - Python None is the string "None"; the empty string is "".            *)
(*  - A uuid4 is "uuid<n>", a Python object identity is "obj<n>", both     *)
(*    drawn from one allocation counter, so two objects never share one.   *)
(*  - A reference to a node object is [cls, oid, key]; the objects the     *)
(*    builder mutates (Author: Email) live in the index that owns them.    *)
(*  - hash(uuid) and hash(str) are outcomes of the run (uuid4 is random,   *)
(*    str hashes are salted): they are chosen when the object is made.     *)
(*  - Floats rounded to 4 decimals are integers in units of 1/10000.       *)
(*  - display_info / display_name / relation are display strings with no   *)
(*    effect on the state and are left out of the attribute bags.          *)
(***************************************************************************)
EXTENDS Integers, Sequences, FiniteSets, TLC

VARIABLES
    authors,        \* self.authors      : name  -> Author object
    affiliations,   \* self.affiliations : name  -> Affiliation object
    papers,         \* self.papers       : title -> Paper object
    entities,       \* self.entities     : name  -> Entity object
    nodes,          \* self.graph nodes  : node id -> attribute bag
    gedges,         \* self.graph edges  : MultiDiGraph edges in insertion order
    edges,          \* self.edges        : every edge object ever appended
    nextId,         \* next fresh uuid / object identity
    ret,            \* what the last call returned
    last,           \* the last call and its arguments
    calls,          \* number of calls made
    creditIn,       \* an author list handed to calculate_author_credit
    creditOut,      \* the dict it returned, once it has
    cache_data,     \* PaperCache.cache_data : paper id -> record
    cache_file,     \* the file at PaperCache.cache_file_path
    now,            \* the clock read by datetime.now()
    extractor_calls, \* how often each external extractor was invoked
    run,            \* PaperProcessor.process_all_papers: where the run stands
    threads         \* callers of the builder running side by side

builderVars == <<authors, affiliations, papers, entities, nodes, gedges, edges,
                 nextId, ret, last, calls>>
creditVars == <<creditIn, creditOut>>
cacheVars == <<cache_data, cache_file, now, extractor_calls>>
runVars == <<run>>
threadVars == <<threads>>
vars == <<builderVars, creditVars, cacheVars, runVars, threadVars>>

(***************************************************************************)
(* Bounds and input universes                                              *)
(***************************************************************************)
MaxIdentityCalls == 4
MaxCalls == 2
MaxAuthors == 2
MaxCreditAuthors == 23

Names == {"a", "b"}
Titles == {"X", "T"}
AffNames == {"X", "M"}
EntityNames == {"llm", "kg"}
None == "None"
Emails == {None, "", "e1", "e2"}
HashVals == {0, 1}

\* Python truthiness of an optional string
Truthy(s) == s # None /\ s # ""

Uuid(n) == "uuid" \o ToString(n)
ObjId(n) == "obj" \o ToString(n)

EmptyMap == [x \in {} |-> None]
Put(f, k, v) == [x \in DOMAIN f \cup {k} |-> IF x = k THEN v ELSE f[x]]
\* dict.update
Merge(old, new) ==
    [k \in DOMAIN old \cup DOMAIN new |-> IF k \in DOMAIN new THEN new[k] ELSE old[k]]

(***************************************************************************)
(* Node objects (src/Node.py)                                              *)
(***************************************************************************)
Author(id, name, email, h) == [id |-> id, Name |-> name, Email |-> email, hash |-> h]
Affiliation(oid, name, h) == [oid |-> oid, Name |-> name, hash |-> h]
Paper(oid, title) == [oid |-> oid, Title |-> title]
Entity(id, name) == [id |-> id, name |-> name]

\* hash(Author) is hash(_id), hash(Affiliation) is hash(Name): fixed for the
\* life of the object, so a reference carries it
AuthorRef(a) == [cls |-> "Author", oid |-> a.id, key |-> a.Name, hash |-> a.hash]
AffiliationRef(a) ==
    [cls |-> "Affiliation", oid |-> a.oid, key |-> a.Name, hash |-> a.hash]
PaperRef(p) == [cls |-> "Paper", oid |-> p.oid, key |-> p.Title]
EntityRef(e) == [cls |-> "Entity", oid |-> e.id, key |-> e.name]

(***************************************************************************)
(* The builder as one value, so that a handler is a function of it         *)
(***************************************************************************)
Cur == [authors |-> authors, affiliations |-> affiliations, papers |-> papers,
        entities |-> entities, nodes |-> nodes, gedges |-> gedges,
        edges |-> edges, nextId |-> nextId]

Install(b) ==
    /\ authors' = b.authors
    /\ affiliations' = b.affiliations
    /\ papers' = b.papers
    /\ entities' = b.entities
    /\ nodes' = b.nodes
    /\ gedges' = b.gedges
    /\ edges' = b.edges
    /\ nextId' = b.nextId

\* networkx add_node: a new id is inserted, an existing id has its bag updated
add_node(b, id, attrs) ==
    [b EXCEPT !.nodes = IF id \in DOMAIN @
                        THEN [@ EXCEPT ![id] = Merge(@, attrs)]
                        ELSE Put(@, id, attrs)]

\* get_or_create_author without the `name not in self.authors` test
get_or_create_author_always_new(b, name, email, h) ==
    LET author == Author(Uuid(b.nextId), name, email, h)
        b1 == [b EXCEPT !.authors = Put(@, name, author), !.nextId = @ + 1]
        b2 == add_node(b1, author.id,
                       [node_type |-> "Author", email |-> email,
                        node_object |-> AuthorRef(author)])
    IN  [b |-> b2, ret |-> AuthorRef(author)]

\* get_or_create_author with `if email:` for `if email and not ...Email:`
get_or_create_author_overwrite(b, name, email, h) ==
    IF name \notin DOMAIN b.authors
    THEN get_or_create_author_always_new(b, name, email, h)
    ELSE LET old == b.authors[name]
             b1 == IF Truthy(email)
                   THEN [b EXCEPT !.authors[name].Email = email,
                                  !.nodes[old.id].email = email]
                   ELSE b
         IN  [b |-> b1, ret |-> AuthorRef(b1.authors[name])]

get_or_create_author(b, name, email, h) ==
    IF name \notin DOMAIN b.authors
    THEN LET author == Author(Uuid(b.nextId), name, email, h)
             b1 == [b EXCEPT !.authors = Put(@, name, author), !.nextId = @ + 1]
             b2 == add_node(b1, author.id,
                            [node_type |-> "Author", email |-> email,
                             node_object |-> AuthorRef(author)])
         IN  [b |-> b2, ret |-> AuthorRef(author)]
    ELSE LET old == b.authors[name]
             b1 == IF Truthy(email) /\ ~Truthy(old.Email)
                   THEN [b EXCEPT !.authors[name].Email = email,
                                  !.nodes[old.id].email = email]
                   ELSE b
         IN  [b |-> b1, ret |-> AuthorRef(b1.authors[name])]

get_or_create_affiliation(b, name, h) ==
    IF name \notin DOMAIN b.affiliations
    THEN LET affiliation == Affiliation(ObjId(b.nextId), name, h)
             b1 == [b EXCEPT !.affiliations = Put(@, name, affiliation),
                             !.nextId = @ + 1]
             b2 == add_node(b1, name,
                            [node_type |-> "Affiliation",
                             node_object |-> AffiliationRef(affiliation)])
         IN  [b |-> b2, ret |-> AffiliationRef(affiliation)]
    ELSE [b |-> b, ret |-> AffiliationRef(b.affiliations[name])]

add_paper(b, paper) ==
    IF paper.Title \notin DOMAIN b.papers
    THEN LET b1 == [b EXCEPT !.papers = Put(@, paper.Title, paper)]
             b2 == add_node(b1, paper.Title,
                            [node_type |-> "Paper", node_object |-> PaperRef(paper)])
         IN  [b |-> b2, ret |-> PaperRef(paper)]
    ELSE [b |-> b, ret |-> PaperRef(b.papers[paper.Title])]

get_or_create_entity(b, name) ==
    IF name \notin DOMAIN b.entities
    THEN LET entity == Entity(Uuid(b.nextId), name)
             b1 == [b EXCEPT !.entities = Put(@, name, entity), !.nextId = @ + 1]
             b2 == add_node(b1, entity.id,
                            [node_type |-> "Entity", node_object |-> EntityRef(entity)])
         IN  [b |-> b2, ret |-> EntityRef(entity)]
    ELSE [b |-> b, ret |-> EntityRef(b.entities[name])]

\* The caller's Paper(title=..., ...) : a fresh object on every call
NewPaper(b, title) == Paper(ObjId(b.nextId), title)
AfterNewPaper(b) == [b EXCEPT !.nextId = @ + 1]

(***************************************************************************)
(* Edge objects (src/Edge.py).  An edge object is identified by its        *)
(* position in self.edges; the graph's edge_object attribute holds it.     *)
(***************************************************************************)
BaseEdge(cls, source_node, target_node, kwargs) ==
    [cls |-> cls, source |-> source_node, target |-> target_node,
     attributes |-> kwargs]

AuthorPaperEdge(author, paper, author_order) ==
    BaseEdge("AuthorPaperEdge", author, paper,
             [author_order |-> author_order, weight |-> 0])

update_weight(edge, new_weight) == [edge EXCEPT !.attributes.weight = new_weight]

AuthorAffiliationEdge(author, affiliation) ==
    BaseEdge("AuthorAffiliationEdge", author, affiliation, [rank |-> 0])

AuthorCoauthorEdge(author1, author2, coauthored_paper) ==
    LET swap == author1.hash > author2.hash
    IN  BaseEdge("AuthorCoauthorEdge",
                 IF swap THEN author2 ELSE author1,
                 IF swap THEN author1 ELSE author2,
                 [weight |-> 0, coauthored_paper_list |-> <<coauthored_paper>>])

\* `new_paper not in list` : Paper.__eq__ compares titles
PaperIn(paper, list) == \E i \in 1..Len(list) : list[i].key = paper.key

add_coauthored_paper(edge, new_paper) ==
    IF PaperIn(new_paper, edge.attributes.coauthored_paper_list)
    THEN edge
    ELSE [edge EXCEPT !.attributes.coauthored_paper_list = Append(@, new_paper)]

PaperAffiliationEdge(paper, affiliation) ==
    BaseEdge("PaperAffiliationEdge", paper, affiliation, EmptyMap)

PaperCitationEdge(citing_paper, cited_paper) ==
    BaseEdge("PaperCitationEdge", citing_paper, cited_paper, EmptyMap)

PaperEntityEdge(paper, entity) ==
    BaseEdge("PaperEntityEdge", paper, entity, [weight |-> 0])

AffiliationCollaborationEdge(affiliation1, affiliation2, collaboration_paper) ==
    LET swap == affiliation1.hash > affiliation2.hash
    IN  BaseEdge("AffiliationCollaborationEdge",
                 IF swap THEN affiliation2 ELSE affiliation1,
                 IF swap THEN affiliation1 ELSE affiliation2,
                 [weight |-> 0, collaboration_paper_list |-> <<collaboration_paper>>])

add_collaboration_paper(edge, new_paper) ==
    IF PaperIn(new_paper, edge.attributes.collaboration_paper_list)
    THEN edge
    ELSE [edge EXCEPT !.attributes.collaboration_paper_list = Append(@, new_paper)]

(***************************************************************************)
(* The graph store: networkx.MultiDiGraph                                  *)
(***************************************************************************)
EdgesBetween(g, u, v) == {i \in 1..Len(g) : g[i].source = u /\ g[i].target = v}

\* has_edge with the endpoints the wrong way round
has_edge_reversed(b, u, v) == EdgesBetween(b.gedges, v, u) # {}

has_edge(b, u, v) == EdgesBetween(b.gedges, u, v) # {}

\* MultiDiGraph.add_edge: endpoints are added when missing, the new key is
\* the number of edges already between the endpoints (none is ever removed)
add_edge(b, u, v, data) ==
    LET withU == IF u \in DOMAIN b.nodes THEN b.nodes ELSE Put(b.nodes, u, EmptyMap)
        withV == IF v \in DOMAIN withU THEN withU ELSE Put(withU, v, EmptyMap)
        key == Cardinality(EdgesBetween(b.gedges, u, v))
    IN  [b EXCEPT !.nodes = withV,
                  !.gedges = Append(@, [source |-> u, target |-> v,
                                        key |-> key, data |-> data])]

\* Position in gedges of the first edge source->target of the type, 0 for
\* (None, None); the edge object and the key are read from that position
find_existing_edge(b, source_id, target_id, edge_type) ==
    LET hits == {i \in EdgesBetween(b.gedges, source_id, target_id) :
                    b.gedges[i].data.edge_type = edge_type}
    IN  IF hits = {} THEN 0 ELSE CHOOSE i \in hits : \A j \in hits : i <= j

update_edge_in_graph(b, pos, updates) ==
    [b EXCEPT !.gedges[pos].data = Merge(@, updates)]

(***************************************************************************)
(* Harmonic credit                                                         *)
(***************************************************************************)
\* Author_Order is Optional[int]: <<>> is None, <<n>> is the integer n
OrderOf(author) ==
    IF author.Author_Order = <<>> THEN 1
    ELSE IF author.Author_Order[1] = 0 THEN 1
    ELSE author.Author_Order[1]

RECURSIVE Gcd(_, _)
Gcd(x, y) == IF y = 0 THEN x ELSE Gcd(y, x % y)
Lcm(x, y) == (x * y) \div Gcd(x, y)

RECURSIVE LcmOrders(_, _)
LcmOrders(author_orders, i) ==
    IF i > Len(author_orders) THEN 1
    ELSE Lcm(author_orders[i], LcmOrders(author_orders, i + 1))

RECURSIVE SumOver(_, _)
SumOver(s, i) == IF i > Len(s) THEN 0 ELSE s[i] + SumOver(s, i + 1)

\* round(num/den, 4) in units of 1/10000.  On an exact decimal tie the binary
\* quotient lies on either side of it (or on it): `up` is the side taken.
Round4(num, den, up) ==
    LET q == (10000 * num) \div den
        r == (10000 * num) % den
    IN  IF 2 * r < den THEN q
        ELSE IF 2 * r > den THEN q + 1
        ELSE IF up THEN q + 1 ELSE q

IsTie(num, den) == 2 * ((10000 * num) % den) = den

\* (1/order_i) / sum_k (1/order_k), as the fraction (L/order_i) / sum_k (L/order_k)
HarmonicDen(author_orders) ==
    LET L == LcmOrders(author_orders, 1)
    IN  SumOver([k \in 1..Len(author_orders) |-> L \div author_orders[k]], 1)

\* calculate_author_credit without the division by sum_harmonic
calculate_author_credit_unnormalized(author_list, up) ==
    LET author_orders == [i \in 1..Len(author_list) |-> OrderOf(author_list[i])]
        weight(i) == Round4(1, author_orders[i], up[author_orders[i]])
        LastOf(name) == CHOOSE i \in 1..Len(author_list) :
                           /\ author_list[i].Name = name
                           /\ \A j \in 1..Len(author_list) :
                                 author_list[j].Name = name => j <= i
    IN  [name \in {author_list[i].Name : i \in 1..Len(author_list)} |->
            weight(LastOf(name))]

calculate_author_credit(author_list, up) ==
    LET author_orders == [i \in 1..Len(author_list) |-> OrderOf(author_list[i])]
        L == LcmOrders(author_orders, 1)
        sum_harmonic == HarmonicDen(author_orders)
        weight(i) == Round4(L \div author_orders[i], sum_harmonic, up[author_orders[i]])
        LastOf(name) == CHOOSE i \in 1..Len(author_list) :
                           /\ author_list[i].Name = name
                           /\ \A j \in 1..Len(author_list) :
                                 author_list[j].Name = name => j <= i
    IN  [name \in {author_list[i].Name : i \in 1..Len(author_list)} |->
            weight(LastOf(name))]

\* The rounding sides to consider for a list: one when no weight is a tie
TieSides(author_list) ==
    LET author_orders == [i \in 1..Len(author_list) |-> OrderOf(author_list[i])]
        L == LcmOrders(author_orders, 1)
        den == HarmonicDen(author_orders)
        vals == {author_orders[i] : i \in 1..Len(author_orders)}
        tied == {o \in vals : IsTie(L \div o, den)}
    IN  {[o \in vals |-> o \in S] : S \in SUBSET tied}

(***************************************************************************)
(* process_author_list_and_paper                                           *)
(*   author_hash / affiliation_hash : the hash an object gets if this call *)
(*   creates it;  affiliation_list : the iteration order of the set        *)
(*   paper_affiliations (a Python set iterates in an order of its own)     *)
(***************************************************************************)
HashFor(hashes, name) == IF name \in DOMAIN hashes THEN hashes[name] ELSE 0

\* One turn of `for author_meta in author_list.Authors`
process_author(st, author_meta, paper_node, author_weights, author_hash, affiliation_hash) ==
    LET r1 == get_or_create_author(st.b, author_meta.Name, author_meta.Email,
                                   HashFor(author_hash, author_meta.Name))
        author_node == r1.ret
        author_order == OrderOf(author_meta)
        author_paper_edge ==
            update_weight(AuthorPaperEdge(author_node, paper_node, author_order),
                          author_weights[author_meta.Name])
        b2 == [r1.b EXCEPT !.edges = Append(@, author_paper_edge)]
        b3 == add_edge(b2, author_node.oid, paper_node.key,
                       [edge_type |-> "AuthorPaper", author_order |-> author_order,
                        weight |-> 0, edge_object |-> Len(b2.edges)])
        st3 == [b |-> b3, author_nodes |-> Append(st.author_nodes, author_node),
                paper_affiliations |-> st.paper_affiliations]
    IN  IF ~Truthy(author_meta.Affiliation) THEN st3
        ELSE LET r4 == get_or_create_affiliation(
                           b3, author_meta.Affiliation,
                           HashFor(affiliation_hash, author_meta.Affiliation))
                 affiliation_node == r4.ret
                 author_affiliation_edge ==
                     AuthorAffiliationEdge(author_node, affiliation_node)
                 b5 == [r4.b EXCEPT !.edges = Append(@, author_affiliation_edge)]
                 b6 == IF ~has_edge(b5, author_node.oid, affiliation_node.key)
                       THEN add_edge(b5, author_node.oid, affiliation_node.key,
                                     [edge_type |-> "AuthorAffiliation", rank |-> 0,
                                      edge_object |-> Len(b5.edges)])
                       ELSE b5
             IN  [b |-> b6, author_nodes |-> st3.author_nodes,
                  paper_affiliations |->
                      st.paper_affiliations \cup {affiliation_node}]

RECURSIVE process_authors(_, _, _, _, _, _, _)
process_authors(st, author_list, i, paper_node, author_weights, author_hash, affiliation_hash) ==
    IF i > Len(author_list) THEN st
    ELSE process_authors(
             process_author(st, author_list[i], paper_node, author_weights,
                            author_hash, affiliation_hash),
             author_list, i + 1, paper_node, author_weights, author_hash,
             affiliation_hash)

\* for i in range(n): for j in range(i + 1, n), as the list of (i, j) in order
RECURSIVE PairsFrom(_, _, _)
PairsFrom(i, j, n) ==
    IF i > n THEN <<>>
    ELSE IF j > n THEN PairsFrom(i + 1, i + 2, n)
    ELSE <<<<i, j>>>> \o PairsFrom(i, j + 1, n)
\* Pairs with the inner loop stopped after j = i + 1: neighbours only
Pairs_adjacent(n) == [k \in 1..(IF n > 0 THEN n - 1 ELSE 0) |-> <<k, k + 1>>]
Pairs(n) == PairsFrom(1, 2, n)

\* One turn of the co-author loop
coauthor_step(b, author1, author2, paper_node) ==
    LET coauthor_edge == AuthorCoauthorEdge(author1, author2, paper_node)
        b1 == [b EXCEPT !.edges = Append(@, coauthor_edge)]
        source_id == coauthor_edge.source.oid
        target_id == coauthor_edge.target.oid
        pos == find_existing_edge(b1, source_id, target_id, "Coauthor")
    IN  IF pos # 0
        THEN LET eo == b1.gedges[pos].data.edge_object
                 b2 == [b1 EXCEPT !.edges[eo] = add_coauthored_paper(@, paper_node)]
             IN  update_edge_in_graph(b2, pos,
                     [coauthored_papers |->
                          b2.edges[eo].attributes.coauthored_paper_list])
        ELSE add_edge(b1, source_id, target_id,
                      [edge_type |-> "Coauthor", weight |-> 0,
                       coauthored_papers |-> <<paper_node>>,
                       edge_object |-> Len(b1.edges)])

RECURSIVE coauthor_loop(_, _, _, _, _)
coauthor_loop(b, author_nodes, pairs, k, paper_node) ==
    IF k > Len(pairs) THEN b
    ELSE coauthor_loop(
             coauthor_step(b, author_nodes[pairs[k][1]], author_nodes[pairs[k][2]],
                           paper_node),
             author_nodes, pairs, k + 1, paper_node)

\* for affiliation_node in paper_affiliations
RECURSIVE paper_affiliation_loop(_, _, _, _)
paper_affiliation_loop(b, affiliation_list, k, paper_node) ==
    IF k > Len(affiliation_list) THEN b
    ELSE LET paper_affiliation_edge ==
                 PaperAffiliationEdge(paper_node, affiliation_list[k])
             b1 == [b EXCEPT !.edges = Append(@, paper_affiliation_edge)]
             b2 == add_edge(b1, paper_node.key, affiliation_list[k].key,
                            [edge_type |-> "PaperAffiliation",
                             edge_object |-> Len(b1.edges)])
         IN  paper_affiliation_loop(b2, affiliation_list, k + 1, paper_node)

\* One turn of the affiliation-collaboration loop
collaboration_step(b, affiliation1, affiliation2, paper_node) ==
    LET collab_edge == AffiliationCollaborationEdge(affiliation1, affiliation2,
                                                    paper_node)
        b1 == [b EXCEPT !.edges = Append(@, collab_edge)]
        source_name == collab_edge.source.key
        target_name == collab_edge.target.key
        pos == find_existing_edge(b1, source_name, target_name,
                                  "AffiliationCollaboration")
    IN  IF pos # 0
        THEN LET eo == b1.gedges[pos].data.edge_object
                 b2 == [b1 EXCEPT !.edges[eo] = add_collaboration_paper(@, paper_node)]
             IN  update_edge_in_graph(b2, pos,
                     [collaboration_papers |->
                          b2.edges[eo].attributes.collaboration_paper_list])
        ELSE add_edge(b1, source_name, target_name,
                      [edge_type |-> "AffiliationCollaboration", weight |-> 0,
                       collaboration_papers |-> <<paper_node>>,
                       edge_object |-> Len(b1.edges)])

RECURSIVE collaboration_loop(_, _, _, _, _)
collaboration_loop(b, affiliation_list, pairs, k, paper_node) ==
    IF k > Len(pairs) THEN b
    ELSE collaboration_loop(
             collaboration_step(b, affiliation_list[pairs[k][1]],
                                affiliation_list[pairs[k][2]], paper_node),
             affiliation_list, pairs, k + 1, paper_node)

\* sum(1/order for order in author_orders) as a fraction <<num, den>>
RECURSIVE HarmonicFraction(_, _)
HarmonicFraction(author_orders, i) ==
    IF i > Len(author_orders) THEN <<0, 1>>
    ELSE LET f == HarmonicFraction(author_orders, i + 1)
         IN  <<f[1] * author_orders[i] + f[2], f[2] * author_orders[i]>>

\* (1/order) / sum_harmonic raises ZeroDivisionError: the orders are not all
\* positive and their reciprocals cancel (exactly so in floating point for
\* orders n and -n)
credit_raises(author_list) ==
    /\ Len(author_list) > 0
    /\ HarmonicFraction([i \in 1..Len(author_list) |-> OrderOf(author_list[i])], 1)[1] = 0

\* The rounding sides to consider for a list whose credit may raise
CreditSides(author_list) ==
    IF credit_raises(author_list) THEN {EmptyMap} ELSE TieSides(author_list)

\* Lines 203-304: the paper, the credit, the author loop, the co-author loop;
\* raised: calculate_author_credit raised after add_paper
process_head(b, author_list, paper, up, author_hash, affiliation_hash) ==
    LET r0 == add_paper(b, paper)
        paper_node == r0.ret
    IN  IF credit_raises(author_list)
        THEN [b |-> r0.b, paper_node |-> paper_node, paper_affiliations |-> {},
              raised |-> TRUE]
        ELSE LET author_weights == calculate_author_credit(author_list, up)
                 st == process_authors([b |-> r0.b, author_nodes |-> <<>>,
                                        paper_affiliations |-> {}],
                                       author_list, 1, paper_node, author_weights,
                                       author_hash, affiliation_hash)
                 b1 == coauthor_loop(st.b, st.author_nodes,
                                     Pairs(Len(st.author_nodes)), 1, paper_node)
             IN  [b |-> b1, paper_node |-> paper_node,
                  paper_affiliations |-> st.paper_affiliations, raised |-> FALSE]

\* Lines 306-358: the two loops over paper_affiliations
process_tail(head, affiliation_list) ==
    LET b1 == paper_affiliation_loop(head.b, affiliation_list, 1, head.paper_node)
    IN  collaboration_loop(b1, affiliation_list, Pairs(Len(affiliation_list)), 1,
                           head.paper_node)

\* The orders in which a set can be iterated
Orderings(S) ==
    {f \in [1..Cardinality(S) -> S] : \A i, j \in 1..Cardinality(S) : i # j => f[i] # f[j]}

process_author_list_and_paper(b, author_list, paper, up, author_hash, affiliation_hash, affiliation_list) ==
    process_tail(process_head(b, author_list, paper, up, author_hash,
                              affiliation_hash),
                 affiliation_list)

add_paper_entity_relation(b, paper, entity_name, weight) ==
    LET r0 == add_paper(b, paper)
        paper_node == r0.ret
        r1 == get_or_create_entity(r0.b, entity_name)
        entity_node == r1.ret
        paper_entity_edge == update_weight(PaperEntityEdge(paper_node, entity_node),
                                           weight)
        b2 == [r1.b EXCEPT !.edges = Append(@, paper_entity_edge)]
    IN  add_edge(b2, paper.Title, entity_node.oid,
                 [edge_type |-> "PaperEntity", weight |-> weight,
                  edge_object |-> Len(b2.edges)])

add_paper_citation(b, citing_paper, cited_paper) ==
    LET r0 == add_paper(b, citing_paper)
        citing_node == r0.ret
        r1 == add_paper(r0.b, cited_paper)
        cited_node == r1.ret
        citation_edge == PaperCitationEdge(citing_node, cited_node)
        b2 == [r1.b EXCEPT !.edges = Append(@, citation_edge)]
    IN  add_edge(b2, citing_paper.Title, cited_paper.Title,
                 [edge_type |-> "Citation", edge_object |-> Len(b2.edges)])

(***************************************************************************)
(* Calls                                                                   *)
(***************************************************************************)
InitBuilder ==
    /\ authors = EmptyMap
    /\ affiliations = EmptyMap
    /\ papers = EmptyMap
    /\ entities = EmptyMap
    /\ nodes = EmptyMap
    /\ gedges = <<>>
    /\ edges = <<>>
    /\ nextId = 1
    /\ ret = None
    /\ last = [op |-> "init"]
    /\ calls = 0

\* A PaperCache over a cache directory that holds no file yet
InitCache ==
    /\ cache_file = [state |-> "absent"]
    /\ cache_data = EmptyMap
    /\ now = 0
    /\ extractor_calls = [authors |-> 0, entities |-> 0]

\* No run of process_all_papers has started
InitRun == run = [phase |-> "idle"]

\* One caller only
InitThreads == threads = [mode |-> "single"]

Init ==
    /\ InitBuilder
    /\ InitCache
    /\ InitRun
    /\ InitThreads
    /\ creditIn = <<>>
    /\ creditOut = [returned |-> FALSE]

GetOrCreateAuthor(name, email, h) ==
    /\ LET r == get_or_create_author(Cur, name, email, h)
       IN  Install(r.b) /\ ret' = r.ret
    /\ last' = [op |-> "get_or_create_author", name |-> name, email |-> email,
                existed |-> name \in DOMAIN authors]
    /\ calls' = calls + 1

GetOrCreateAffiliation(name, h) ==
    /\ LET r == get_or_create_affiliation(Cur, name, h)
       IN  Install(r.b) /\ ret' = r.ret
    /\ last' = [op |-> "get_or_create_affiliation", name |-> name,
                existed |-> name \in DOMAIN affiliations]
    /\ calls' = calls + 1

AddPaper(title) ==
    /\ LET paper == NewPaper(Cur, title)
           r == add_paper(AfterNewPaper(Cur), paper)
       IN  Install(r.b) /\ ret' = r.ret
    /\ last' = [op |-> "add_paper", name |-> title, arg |-> ObjId(nextId),
                existed |-> title \in DOMAIN papers]
    /\ calls' = calls + 1

GetOrCreateEntity(name) ==
    /\ LET r == get_or_create_entity(Cur, name)
       IN  Install(r.b) /\ ret' = r.ret
    /\ last' = [op |-> "get_or_create_entity", name |-> name,
                existed |-> name \in DOMAIN entities]
    /\ calls' = calls + 1

\* The author lists of at most MaxAuthors entries over a universe of entries
AuthorLists(metas) == UNION {[1..n -> metas] : n \in 0..MaxAuthors}

NewAuthorNames(author_list) ==
    {author_list[i].Name : i \in 1..Len(author_list)} \ DOMAIN authors
NewAffiliationNames(author_list) ==
    {author_list[i].Affiliation : i \in 1..Len(author_list)}
        \ (DOMAIN affiliations \cup {None, ""})

ProcessAuthorListAndPaper(author_list, title) ==
    /\ \E up \in TieSides(author_list),
          author_hash \in [NewAuthorNames(author_list) -> HashVals],
          affiliation_hash \in [NewAffiliationNames(author_list) -> HashVals] :
          LET paper == NewPaper(Cur, title)
              head == process_head(AfterNewPaper(Cur), author_list, paper, up,
                                   author_hash, affiliation_hash)
          IN  \E affiliation_list \in Orderings(head.paper_affiliations) :
                  Install(process_tail(head, affiliation_list))
    /\ ret' = None
    /\ last' = [op |-> "process_author_list_and_paper",
                author_list |-> author_list, name |-> title]
    /\ calls' = calls + 1

AddPaperEntityRelation(title, entity_name, weight) ==
    /\ Install(add_paper_entity_relation(AfterNewPaper(Cur), NewPaper(Cur, title),
                                         entity_name, weight))
    /\ ret' = None
    /\ last' = [op |-> "add_paper_entity_relation", name |-> title,
                entity |-> entity_name, weight |-> weight]
    /\ calls' = calls + 1

AddPaperCitation(citing, cited) ==
    /\ LET citing_paper == NewPaper(Cur, citing)
           b1 == AfterNewPaper(Cur)
           cited_paper == NewPaper(b1, cited)
       IN  Install(add_paper_citation(AfterNewPaper(b1), citing_paper, cited_paper))
    /\ ret' = None
    /\ last' = [op |-> "add_paper_citation", name |-> citing, cited |-> cited]
    /\ calls' = calls + 1

NextIdentity ==
    /\ calls < MaxIdentityCalls
    /\ \/ \E name \in Names, email \in Emails, h \in HashVals :
             GetOrCreateAuthor(name, email, h)
       \/ \E name \in AffNames, h \in HashVals : GetOrCreateAffiliation(name, h)
       \/ \E title \in Titles : AddPaper(title)
       \/ \E name \in EntityNames : GetOrCreateEntity(name)
    /\ UNCHANGED <<creditVars, cacheVars, runVars, threadVars>>

SpecIdentity == Init /\ [][NextIdentity]_vars

\* Ingestion: what the extractors hand to the builder
AuthorMeta(name, affiliation, email, order) ==
    [Name |-> name, Affiliation |-> affiliation, Email |-> email,
     Author_Order |-> order]

IngestMetas ==
    {AuthorMeta(n, f, None, o) : n \in Names, f \in {"", "X"}, o \in {<<>>, <<2>>}}

Next ==
    /\ calls < MaxCalls
    /\ \/ \E author_list \in AuthorLists(IngestMetas), title \in Titles :
             ProcessAuthorListAndPaper(author_list, title)
       \/ \E title \in Titles, entity_name \in EntityNames :
             AddPaperEntityRelation(title, entity_name, 10000)
       \/ \E citing \in Titles, cited \in Titles : AddPaperCitation(citing, cited)
    /\ UNCHANGED <<creditVars, cacheVars, runVars, threadVars>>

Spec == Init /\ [][Next]_vars

(***************************************************************************)
(* Ingestion of papers whose authors sit at several affiliations: the      *)
(* i-th author of a list is CollabNames[i], at one of CollabAffiliations   *)
(***************************************************************************)
MaxCollabCalls == 3

CollabNames == <<"a", "b">>
CollabAffiliations == {"X", "M"}

CollabLists ==
    UNION {{[i \in 1..n |-> AuthorMeta(CollabNames[i], f[i], None, <<>>)] :
               f \in [1..n -> CollabAffiliations]} : n \in 0..Len(CollabNames)}

NextCollab ==
    /\ calls < MaxCollabCalls
    /\ \E author_list \in CollabLists, title \in Titles :
          ProcessAuthorListAndPaper(author_list, title)
    /\ UNCHANGED <<creditVars, cacheVars, runVars, threadVars>>

SpecCollab == Init /\ [][NextCollab]_vars

(***************************************************************************)
(* calculate_author_credit on its own: author lists of up to               *)
(* MaxCreditAuthors authors with pairwise distinct names, listed by        *)
(* position (orders None, 1, 2, 3 in non-decreasing order)                 *)
(***************************************************************************)
RECURSIVE Repeat(_, _)
Repeat(x, n) == IF n = 0 THEN <<>> ELSE <<x>> \o Repeat(x, n - 1)

CreditList(c0, c1, c2, c3) ==
    LET orders == Repeat(<<>>, c0) \o Repeat(<<1>>, c1) \o Repeat(<<2>>, c2)
                      \o Repeat(<<3>>, c3)
    IN  [i \in 1..Len(orders) |-> AuthorMeta("n" \o ToString(i), "", None, orders[i])]

InitCredit ==
    /\ InitBuilder
    /\ InitCache
    /\ InitRun
    /\ InitThreads
    /\ creditOut = [returned |-> FALSE]
    /\ \E c0, c1, c2, c3 \in 0..MaxCreditAuthors :
          /\ c0 + c1 + c2 + c3 <= MaxCreditAuthors
          /\ creditIn = CreditList(c0, c1, c2, c3)

CalculateAuthorCredit ==
    /\ ~creditOut.returned
    /\ \E up \in TieSides(creditIn) :
          creditOut' = [returned |-> TRUE,
                        value |-> calculate_author_credit(creditIn, up)]
    /\ UNCHANGED <<builderVars, creditIn, cacheVars, runVars, threadVars>>

NextCredit == CalculateAuthorCredit

SpecCredit == InitCredit /\ [][NextCredit]_vars

(***************************************************************************)
(* PaperCache (src/paper_cache.py)                                         *)
(*  - an Optional dict or list is <<>> for None and <<v>> for the value v, *)
(*    as an argument and as a field of a record, so that `is not None` is  *)
(*    a test on the value; an optional string is None or the string        *)
(*  - datetime.now().isoformat() is the value of the clock                 *)
(*  - the cache file is absent, holds JSON text, or holds text that does   *)
(*    not parse; JSON text is kept as the value it denotes, null for None  *)
(***************************************************************************)
JsonNull == "null"
StrToJson(v) == IF v = None THEN JsonNull ELSE v
StrFromJson(v) == IF v = JsonNull THEN None ELSE v

AuthorToJson(a) == [a EXCEPT !.Email = StrToJson(@)]
\* AuthorFromJson that leaves the JSON null where Python has None
AuthorFromJson_raw(a) == a
AuthorFromJson(a) == [a EXCEPT !.Email = StrFromJson(@)]
EntityToJson(e) ==
    [e EXCEPT !.field = StrToJson(@), !.description = StrToJson(@),
              !.entity_type = StrToJson(@)]
EntityFromJson(e) ==
    [e EXCEPT !.field = StrFromJson(@), !.description = StrFromJson(@),
              !.entity_type = StrFromJson(@)]

RecordToJson(r) ==
    [k \in DOMAIN r |->
        IF k = "author_metadata" /\ r[k] # <<>>
        THEN <<[Authors |-> [i \in DOMAIN r[k][1].Authors |->
                               AuthorToJson(r[k][1].Authors[i])]]>>
        ELSE IF k = "entities" /\ r[k] # <<>>
        THEN <<[i \in DOMAIN r[k][1] |-> EntityToJson(r[k][1][i])]>>
        ELSE r[k]]

RecordFromJson(r) ==
    [k \in DOMAIN r |->
        IF k = "author_metadata" /\ r[k] # <<>>
        THEN <<[Authors |-> [i \in DOMAIN r[k][1].Authors |->
                               AuthorFromJson(r[k][1].Authors[i])]]>>
        ELSE IF k = "entities" /\ r[k] # <<>>
        THEN <<[i \in DOMAIN r[k][1] |-> EntityFromJson(r[k][1][i])]>>
        ELSE r[k]]

json_dump(data) == [id \in DOMAIN data |-> RecordToJson(data[id])]
json_load(text) == [id \in DOMAIN text |-> RecordFromJson(text[id])]

\* The PaperCache and its file as one value
CurCache == [cache_data |-> cache_data, cache_file |-> cache_file, now |-> now]

InstallCache(c) ==
    /\ cache_data' = c.cache_data
    /\ cache_file' = c.cache_file
    /\ now' = c.now

\* _load_cache: no file or a file that does not parse gives an empty cache
load_cache(file) ==
    IF file.state = "json" THEN json_load(file.data) ELSE EmptyMap

\* _save_cache: open(..., 'w') then json.dump; an exception is logged and
\* swallowed.  written: the write went through; open_failed: the file is as
\* it was; dump_failed: the file was truncated and holds part of the text
save_cache(c, outcome) ==
    CASE outcome = "written" ->
             [c EXCEPT !.cache_file = [state |-> "json",
                                       data |-> json_dump(c.cache_data)]]
      [] outcome = "open_failed" -> c
      [] outcome = "dump_failed" -> [c EXCEPT !.cache_file = [state |-> "corrupt"]]

\* _generate_paper_id: the MD5 hex digest of the title
generate_paper_id(title) == "md5:" \o title

has_paper(c, title) == generate_paper_id(title) \in DOMAIN c.cache_data

\* dict.get: <<>> for None
get_paper_data(c, title) ==
    IF generate_paper_id(title) \in DOMAIN c.cache_data
    THEN <<c.cache_data[generate_paper_id(title)]>>
    ELSE <<>>

\* `if paper_data:` : not None and not an empty dict
TruthyDict(paper_data) == paper_data # <<>> /\ DOMAIN paper_data[1] # {}

\* has_author_metadata that answers from the presence of the record
has_author_metadata_any_record(c, title) == TruthyDict(get_paper_data(c, title))

has_author_metadata(c, title) ==
    LET paper_data == get_paper_data(c, title)
    IN  IF TruthyDict(paper_data)
        THEN /\ "author_metadata" \in DOMAIN paper_data[1]
             /\ paper_data[1].author_metadata # <<>>
        ELSE FALSE

\* has_entities that answers from the presence of the record
has_entities_any_record(c, title) == TruthyDict(get_paper_data(c, title))

has_entities(c, title) ==
    LET paper_data == get_paper_data(c, title)
    IN  IF TruthyDict(paper_data)
        THEN /\ "entities" \in DOMAIN paper_data[1]
             /\ paper_data[1].entities # <<>>
        ELSE FALSE

\* The part of kwargs that is written: the keys whose value is not None
GivenKwargs(kwargs) ==
    [k \in {x \in DOMAIN kwargs : kwargs[x] # None} |-> kwargs[k]]

\* update_paper_data that starts from a new record on every call
update_paper_data_new_record(c, title, abstract, field, author_metadata, entities_arg, relations, kwargs, outcome) ==
    LET paper_id == generate_paper_id(title)
        t == c.now
        r0 == [title |-> title, paper_id |-> paper_id, created_at |-> t,
               updated_at |-> t]
        r1 == IF abstract # None THEN Put(r0, "abstract", abstract) ELSE r0
        r2 == IF field # None THEN Put(r1, "field", field) ELSE r1
        r3 == IF author_metadata # <<>>
              THEN Put(Put(r2, "author_metadata", author_metadata),
                       "author_metadata_extracted_at", t)
              ELSE r2
        r4 == IF entities_arg # <<>>
              THEN Put(Put(r3, "entities", entities_arg), "entities_extracted_at", t)
              ELSE r3
        r5 == IF relations # <<>>
              THEN Put(Put(r4, "relations", relations), "relations_extracted_at", t)
              ELSE r4
        r6 == Merge(r5, GivenKwargs(kwargs))
    IN  save_cache([c EXCEPT !.cache_data = Put(@, paper_id, r6), !.now = t + 1],
                   outcome)

update_paper_data(c, title, abstract, field, author_metadata, entities_arg, relations, kwargs, outcome) ==
    LET paper_id == generate_paper_id(title)
        t == c.now
        data0 == IF paper_id \notin DOMAIN c.cache_data
                 THEN Put(c.cache_data, paper_id,
                          [title |-> title, paper_id |-> paper_id,
                           created_at |-> t, updated_at |-> t])
                 ELSE c.cache_data
        r0 == Put(data0[paper_id], "updated_at", t)
        r1 == IF abstract # None THEN Put(r0, "abstract", abstract) ELSE r0
        r2 == IF field # None THEN Put(r1, "field", field) ELSE r1
        r3 == IF author_metadata # <<>>
              THEN Put(Put(r2, "author_metadata", author_metadata),
                       "author_metadata_extracted_at", t)
              ELSE r2
        r4 == IF entities_arg # <<>>
              THEN Put(Put(r3, "entities", entities_arg), "entities_extracted_at", t)
              ELSE r3
        r5 == IF relations # <<>>
              THEN Put(Put(r4, "relations", relations), "relations_extracted_at", t)
              ELSE r4
        r6 == Merge(r5, GivenKwargs(kwargs))
    IN  save_cache([c EXCEPT !.cache_data = Put(data0, paper_id, r6), !.now = t + 1],
                   outcome)

(***************************************************************************)
(* The caching extractors.  x is the cache with the counters the call can  *)
(* move: [c, calls, nextId]; `result` is what the external extractor       *)
(* answers if it is asked; the call returns [x, ret]                       *)
(***************************************************************************)
\* author.model_dump() and Author(**a)
model_dump(author) ==
    [Name |-> author.Name, Affiliation |-> author.Affiliation,
     Email |-> author.Email, Author_Order |-> author.Author_Order]
AuthorFromDict(a) == AuthorMeta(a.Name, a.Affiliation, a.Email, a.Author_Order)

AuthorList(authors_arg) == [kind |-> "AuthorList", Authors |-> authors_arg]

\* paper_data.get(key) is truthy: present, not None, not empty
TruthyField(paper_data, key) ==
    /\ TruthyDict(paper_data)
    /\ key \in DOMAIN paper_data[1]
    /\ paper_data[1][key] # <<>>
    /\ DOMAIN paper_data[1][key][1] # {}

\* get_authors that asks the external extractor although the cache answers
get_authors_no_hit(x, title, result, outcome) ==
    LET x1 == [x EXCEPT !.calls.authors = @ + 1]
    IN  IF result.kind = "AuthorList"
        THEN LET author_dict ==
                     [Authors |-> [i \in DOMAIN result.Authors |->
                                      model_dump(result.Authors[i])]]
             IN  [x |-> [x1 EXCEPT !.c = update_paper_data(
                            @, title, None, None, <<author_dict>>, <<>>, <<>>,
                            EmptyMap, outcome)],
                  ret |-> result]
        ELSE [x |-> x1, ret |-> result]

\* get_authors that writes nothing back
get_authors_no_write(x, title, result, outcome) ==
    LET paper_data == get_paper_data(x.c, title)
    IN  IF TruthyField(paper_data, "author_metadata")
        THEN LET author_dict == paper_data[1].author_metadata[1]
             IN  [x |-> x,
                  ret |-> AuthorList([i \in DOMAIN author_dict.Authors |->
                                         AuthorFromDict(author_dict.Authors[i])])]
        ELSE [x |-> [x EXCEPT !.calls.authors = @ + 1], ret |-> result]

get_authors(x, title, result, outcome) ==
    LET paper_data == get_paper_data(x.c, title)
    IN  IF TruthyField(paper_data, "author_metadata")
        THEN LET author_dict == paper_data[1].author_metadata[1]
             IN  [x |-> x,
                  ret |-> AuthorList([i \in DOMAIN author_dict.Authors |->
                                         AuthorFromDict(author_dict.Authors[i])])]
        ELSE LET x1 == [x EXCEPT !.calls.authors = @ + 1]
             IN  IF result.kind = "AuthorList"
                 THEN LET author_dict ==
                              [Authors |-> [i \in DOMAIN result.Authors |->
                                               model_dump(result.Authors[i])]]
                      IN  [x |-> [x1 EXCEPT !.c = update_paper_data(
                                     @, title, None, None, <<author_dict>>, <<>>,
                                     <<>>, EmptyMap, outcome)],
                           ret |-> result]
                 ELSE [x |-> x1, ret |-> result]

\* Entity(name=..., field=..., description=..., entity_type=...): a new uuid
TypedEntity(id, name, field, description, entity_type) ==
    [id |-> id, name |-> name, field |-> field, description |-> description,
     entity_type |-> entity_type]

EntityToEntityEdge(source_entity, target_entity, relationship_description, strength) ==
    [source |-> source_entity, target |-> target_entity,
     description |-> relationship_description, strength |-> strength]

\* The Entity objects of a list of dicts, with ids from first on
EntitiesFromDicts(dicts, first) ==
    [i \in DOMAIN dicts |->
        TypedEntity(Uuid(first + i - 1), dicts[i].name, dicts[i].field,
                    dicts[i].description, dicts[i].entity_type)]

\* entity_map = {e.name: e for e in entities}: the last of a name wins;
\* <<>> for a name that is not in it
EntityMapGet(entity_list, name) ==
    LET hits == {i \in DOMAIN entity_list : entity_list[i].name = name}
    IN  IF hits = {} THEN <<>>
        ELSE <<entity_list[CHOOSE i \in hits : \A j \in hits : j <= i]>>

RECURSIVE RelationsFromDicts(_, _, _)
RelationsFromDicts(dicts, k, entity_list) ==
    IF k > Len(dicts) THEN <<>>
    ELSE LET source == EntityMapGet(entity_list, dicts[k].source_name)
             target == EntityMapGet(entity_list, dicts[k].target_name)
             rest == RelationsFromDicts(dicts, k + 1, entity_list)
         IN  IF source # <<>> /\ target # <<>>
             THEN <<EntityToEntityEdge(source[1], target[1], dicts[k].description,
                                       dicts[k].strength)>> \o rest
             ELSE rest

EntitiesData(entity_list) ==
    [i \in DOMAIN entity_list |->
        [name |-> entity_list[i].name, field |-> entity_list[i].field,
         description |-> entity_list[i].description,
         entity_type |-> entity_list[i].entity_type]]

RelationsData(relations) ==
    [i \in DOMAIN relations |->
        [source_name |-> relations[i].source.name,
         target_name |-> relations[i].target.name,
         description |-> relations[i].description,
         strength |-> relations[i].strength]]

\* What the external entity extractor returns for an answer `result`: new
\* Entity objects and the relations between them
ExtractedEntities(result, first) == EntitiesFromDicts(result.entities, first)
ExtractedRelations(result, entity_list) ==
    [i \in DOMAIN result.relations |->
        EntityToEntityEdge(entity_list[result.relations[i].source],
                           entity_list[result.relations[i].target],
                           result.relations[i].description,
                           result.relations[i].strength)]

extract_entities_from_abstract(x, paper, result, outcome) ==
    LET title == paper.Title
        paper_data == get_paper_data(x.c, title)
    IN  IF TruthyField(paper_data, "entities")
        THEN LET entity_list == EntitiesFromDicts(paper_data[1].entities[1], x.nextId)
                 relation_dicts == IF "relations" \in DOMAIN paper_data[1]
                                   THEN paper_data[1].relations[1]
                                   ELSE <<>>
             IN  [x |-> [x EXCEPT !.nextId = @ + Len(entity_list)],
                  ret |-> [entities |-> entity_list,
                           relations |-> RelationsFromDicts(relation_dicts, 1,
                                                            entity_list)]]
        ELSE LET entity_list == ExtractedEntities(result, x.nextId)
                 relations == ExtractedRelations(result, entity_list)
                 x1 == [x EXCEPT !.calls.entities = @ + 1,
                                 !.nextId = @ + Len(entity_list)]
             IN  IF Len(entity_list) > 0 \/ Len(relations) > 0
                 THEN [x |-> [x1 EXCEPT !.c = update_paper_data(
                                 @, title, paper.Abstract, paper.field, <<>>,
                                 <<EntitiesData(entity_list)>>,
                                 <<RelationsData(relations)>>, EmptyMap, outcome)],
                       ret |-> [entities |-> entity_list, relations |-> relations]]
                 ELSE [x |-> x1,
                       ret |-> [entities |-> entity_list, relations |-> relations]]

(***************************************************************************)
(* Calls on the cache.  The storage takes every write (write failures and  *)
(* crashes are not part of this specification).                            *)
(***************************************************************************)
MaxCacheCalls == 4

CurX == [c |-> CurCache, calls |-> extractor_calls, nextId |-> nextId]

InstallX(x) ==
    /\ InstallCache(x.c)
    /\ extractor_calls' = x.calls
    /\ nextId' = x.nextId

graphVars == <<authors, affiliations, papers, entities, nodes, gedges, edges>>

\* What the author extractor can answer: an AuthorList (also an empty one), a
\* refusal or error text, None
ExtractedAuthorLists ==
    {<<>>,
     <<AuthorMeta("a", "X", None, <<>>)>>,
     <<AuthorMeta("a", "X", "e1", <<1>>), AuthorMeta("b", "", None, <<2>>)>>}

AuthorResults ==
    {AuthorList(l) : l \in ExtractedAuthorLists}
        \cup {[kind |-> "str", text |-> "An error occurred"], [kind |-> "None"]}

\* What the entity extractor can answer: the entities as the fields it sets
\* and the relations by the positions of their endpoints
EntityAnswer(name, entity_type) ==
    [name |-> name, field |-> None, description |-> "d", entity_type |-> entity_type]

EntityResults ==
    {[entities |-> <<>>, relations |-> <<>>],
     [entities |-> <<EntityAnswer("llm", "CONCEPT")>>, relations |-> <<>>],
     [entities |-> <<EntityAnswer("llm", "CONCEPT"), EntityAnswer("kg", "METHOD")>>,
      relations |-> <<[source |-> 1, target |-> 2, description |-> "uses",
                       strength |-> 5000]>>]}

\* The papers handed to the entity extractor: main.py gives every paper a
\* non-empty abstract and the first field of field_list
CachePapers == {[Title |-> t, Abstract |-> "abs", field |-> "ML"] : t \in Titles}

GetAuthors(title, result) ==
    /\ LET r == get_authors(CurX, title, result, "written")
       IN  InstallX(r.x) /\ ret' = r.ret
    /\ last' = [op |-> "get_authors", name |-> title, result |-> result]
    /\ calls' = calls + 1
    /\ UNCHANGED <<graphVars, creditVars>>

ExtractEntitiesFromAbstract(paper, result) ==
    /\ LET r == extract_entities_from_abstract(CurX, paper, result, "written")
       IN  InstallX(r.x) /\ ret' = r.ret
    /\ last' = [op |-> "extract_entities_from_abstract", name |-> paper.Title,
                result |-> result]
    /\ calls' = calls + 1
    /\ UNCHANGED <<graphVars, creditVars>>

HasAuthorMetadata(title) ==
    /\ ret' = has_author_metadata(CurCache, title)
    /\ last' = [op |-> "has_author_metadata", name |-> title]
    /\ calls' = calls + 1
    /\ UNCHANGED <<graphVars, nextId, creditVars, cacheVars>>

HasEntities(title) ==
    /\ ret' = has_entities(CurCache, title)
    /\ last' = [op |-> "has_entities", name |-> title]
    /\ calls' = calls + 1
    /\ UNCHANGED <<graphVars, nextId, creditVars, cacheVars>>

\* PaperCache() that keeps what the last instance held when the file does
\* not read
NewPaperCache_keep ==
    /\ cache_data' = IF cache_file.state = "json" THEN load_cache(cache_file)
                     ELSE cache_data
    /\ ret' = None
    /\ last' = [op |-> "PaperCache"]
    /\ calls' = calls + 1
    /\ UNCHANGED <<graphVars, nextId, creditVars, cache_file, now, extractor_calls>>

\* PaperCache(): a new instance over the same directory, as a new run makes
NewPaperCache ==
    /\ cache_data' = load_cache(cache_file)
    /\ ret' = None
    /\ last' = [op |-> "PaperCache"]
    /\ calls' = calls + 1
    /\ UNCHANGED <<graphVars, nextId, creditVars, cache_file, now, extractor_calls>>

NextCache ==
    /\ calls < MaxCacheCalls
    /\ \/ \E title \in Titles, result \in AuthorResults : GetAuthors(title, result)
       \/ \E paper \in CachePapers, result \in EntityResults :
             ExtractEntitiesFromAbstract(paper, result)
       \/ \E title \in Titles : HasAuthorMetadata(title)
       \/ \E title \in Titles : HasEntities(title)
       \/ NewPaperCache
    /\ UNCHANGED <<runVars, threadVars>>

SpecCache == Init /\ [][NextCache]_vars

(***************************************************************************)
(* update_paper_data called directly, with every choice of the arguments   *)
(* that are passed and the ones left None                                  *)
(***************************************************************************)
MaxUpdateCalls == 2

AbstractArgs == {None, "abs"}
FieldArgs == {None, "ML"}
AuthorMetadataArgs ==
    {<<>>, <<[Authors |-> <<model_dump(AuthorMeta("a", "X", None, <<1>>))>>]>>}
EntitiesArgs == {<<>>, <<<<>>>>, <<EntitiesData(<<EntityAnswer("llm", "CONCEPT")>>)>>}
RelationsArgs == {<<>>, <<<<>>>>}
KwargsArgs == {EmptyMap, [note |-> "n"], [note |-> None]}

UpdatePaperData(title, abstract, field, author_metadata, entities_arg, relations, kwargs) ==
    /\ InstallCache(update_paper_data(CurCache, title, abstract, field,
                                      author_metadata, entities_arg, relations,
                                      kwargs, "written"))
    /\ ret' = None
    /\ last' = [op |-> "update_paper_data", name |-> title, abstract |-> abstract,
                field |-> field, author_metadata |-> author_metadata,
                entities |-> entities_arg, relations |-> relations,
                kwargs |-> kwargs]
    /\ calls' = calls + 1
    /\ UNCHANGED <<graphVars, nextId, creditVars, extractor_calls>>

NextUpdate ==
    /\ calls < MaxUpdateCalls
    /\ \/ \E title \in Titles, abstract \in AbstractArgs, field \in FieldArgs,
             author_metadata \in AuthorMetadataArgs, entities_arg \in EntitiesArgs,
             relations \in RelationsArgs, kwargs \in KwargsArgs :
             UpdatePaperData(title, abstract, field, author_metadata, entities_arg,
                             relations, kwargs)
       \/ \E title \in Titles : HasAuthorMetadata(title)
       \/ \E title \in Titles : HasEntities(title)
    /\ UNCHANGED <<runVars, threadVars>>

SpecUpdate == Init /\ [][NextUpdate]_vars

(***************************************************************************)
(* The cache on a storage that can fail: a write that fails inside         *)
(* _save_cache, a process that dies inside update_paper_data, a file that  *)
(* is damaged between two runs                                             *)
(***************************************************************************)
MaxStorageCalls == 3

\* How _save_cache can end: see save_cache
SaveOutcomes == {"written", "open_failed", "dump_failed"}

\* Where a process can die inside update_paper_data: before open(..., 'w'),
\* between the truncation by open and the end of json.dump, after the with
\* block has closed the file
CrashPoints == {"before_open", "in_dump", "after_close"}

UpdateOnStorage(title, author_metadata, entities_arg, outcome) ==
    /\ InstallCache(update_paper_data(CurCache, title, None, None, author_metadata,
                                      entities_arg, <<>>, EmptyMap, outcome))
    /\ ret' = None
    /\ last' = [op |-> "update_paper_data", name |-> title,
                author_metadata |-> author_metadata, entities |-> entities_arg,
                outcome |-> outcome]
    /\ calls' = calls + 1
    /\ UNCHANGED <<graphVars, nextId, creditVars, extractor_calls>>

\* crashed_file for a _save_cache that opens the file before anything else
crashed_file_open_first(c, point) ==
    CASE point = "after_close" -> [state |-> "json", data |-> json_dump(c.cache_data)]
      [] OTHER -> [state |-> "corrupt"]

\* The file a process leaves that dies at `point` of _save_cache
crashed_file(c, point) ==
    CASE point = "before_open" -> c.cache_file
      [] point = "in_dump" -> [state |-> "corrupt"]
      [] point = "after_close" -> [state |-> "json", data |-> json_dump(c.cache_data)]

\* The process dies inside update_paper_data(title, ...); the next run builds
\* its PaperCache from the file the dead process left
CrashInUpdate(title, author_metadata, entities_arg, point) ==
    \E c \in {update_paper_data(CurCache, title, None, None, author_metadata,
                                entities_arg, <<>>, EmptyMap, "open_failed")} :
        /\ cache_file' = crashed_file(c, point)
        /\ cache_data' = load_cache(cache_file')
        /\ now' = c.now
        /\ ret' = None
        /\ last' = [op |-> "crash", name |-> title, point |-> point]
        /\ calls' = calls + 1
        /\ UNCHANGED <<graphVars, nextId, creditVars, extractor_calls>>

\* Something outside the program leaves a file that does not read or parse
DamageFile ==
    /\ cache_file.state # "corrupt"
    /\ cache_file' = [state |-> "corrupt"]
    /\ ret' = None
    /\ last' = [op |-> "damage"]
    /\ calls' = calls + 1
    /\ UNCHANGED <<graphVars, nextId, creditVars, cache_data, now, extractor_calls>>

NextStorage ==
    /\ calls < MaxStorageCalls
    /\ \/ \E title \in Titles, author_metadata \in AuthorMetadataArgs,
             entities_arg \in EntitiesArgs, outcome \in SaveOutcomes :
             UpdateOnStorage(title, author_metadata, entities_arg, outcome)
       \/ \E title \in Titles, author_metadata \in AuthorMetadataArgs,
             entities_arg \in EntitiesArgs, point \in CrashPoints :
             CrashInUpdate(title, author_metadata, entities_arg, point)
       \/ DamageFile
       \/ NewPaperCache
    /\ UNCHANGED <<runVars, threadVars>>

SpecStorage == Init /\ [][NextStorage]_vars

(***************************************************************************)
(* PaperProcessor.process_single_paper (src/main.py): one Markdown file    *)
(* through the author stage and the concept stage.  md is what the parser  *)
(* finds in the file: the title, the abstract, whether the level-1 heading *)
(* has content.  s is the builder with the cache: [b, c, calls].           *)
(***************************************************************************)
MaxPipelineCalls == 2

\* add_entity_to_entity_relation: a ConceptConcept edge between the Concept
\* nodes of the two names, a parallel edge on every call
add_entity_to_entity_relation(b, relation) ==
    LET r0 == get_or_create_entity(b, relation.source.name)
        r1 == get_or_create_entity(r0.b, relation.target.name)
        edge == BaseEdge("EntityToEntityEdge", r0.ret, r1.ret,
                         [description |-> relation.description,
                          strength |-> relation.strength])
        b2 == [r1.b EXCEPT !.edges = Append(@, edge)]
    IN  add_edge(b2, r0.ret.oid, r1.ret.oid,
                 [edge_type |-> "EntityRelation", weight |-> relation.strength,
                  edge_object |-> Len(b2.edges)])

\* for entity in entities: add_paper_entity_relation(paper, entity, weight=1.0)
RECURSIVE entity_loop(_, _, _, _)
entity_loop(b, paper, entity_list, k) ==
    IF k > Len(entity_list) THEN b
    ELSE entity_loop(add_paper_entity_relation(b, paper, entity_list[k].name, 10000),
                     paper, entity_list, k + 1)

\* for relation in relations: add_entity_to_entity_relation(relation)
RECURSIVE relation_loop(_, _, _)
relation_loop(b, relations, k) ==
    IF k > Len(relations) THEN b
    ELSE relation_loop(add_entity_to_entity_relation(b, relations[k]), relations,
                       k + 1)

\* Lines 155-167: the Paper object and the author extraction
author_stage(s, md, author_answer) ==
    LET paper == NewPaper(s.b, md.title)
        b0 == AfterNewPaper(s.b)
    IN  IF md.content
        THEN LET r == get_authors([c |-> s.c, calls |-> s.calls, nextId |-> b0.nextId],
                                  md.title, author_answer, "written")
             IN  [b |-> b0, c |-> r.x.c, calls |-> r.x.calls, paper |-> paper,
                  author_result |-> r.ret]
        ELSE [b |-> b0, c |-> s.c, calls |-> s.calls, paper |-> paper,
              author_result |-> [kind |-> "None"]]

\* Lines 173-189: the concept extraction and its two loops
concept_stage(s, md, paper, entity_answer) ==
    LET r == extract_entities_from_abstract(
                 [c |-> s.c, calls |-> s.calls, nextId |-> s.b.nextId],
                 [Title |-> md.title, Abstract |-> md.abstract, field |-> "ML"],
                 entity_answer, "written")
        b1 == [s.b EXCEPT !.nextId = r.x.nextId]
        b2 == entity_loop(b1, paper, r.ret.entities, 1)
        b3 == relation_loop(b2, r.ret.relations, 1)
    IN  [b |-> b3, c |-> r.x.c, calls |-> r.x.calls, ret |-> TRUE,
         entities |-> r.ret.entities]

CurS == [b |-> Cur, c |-> CurCache, calls |-> extractor_calls]

InstallS(s) ==
    /\ Install(s.b)
    /\ InstallCache(s.c)
    /\ extractor_calls' = s.calls

\* What the parser can find in a file
MdFiles ==
    {[title |-> t, abstract |-> "abs", content |-> TRUE] : t \in Titles}
        \cup {[title |-> "T", abstract |-> "abs", content |-> FALSE],
              [title |-> "", abstract |-> "abs", content |-> TRUE],
              [title |-> "T", abstract |-> "", content |-> TRUE]}

\* What the author extractor can answer in the pipeline
PipelineAuthorLists ==
    {<<>>,
     <<AuthorMeta("a", "", None, <<>>)>>,
     <<AuthorMeta("a", "", None, <<1>>), AuthorMeta("b", "", None, <<2>>)>>,
     <<AuthorMeta("a", "X", None, <<1>>), AuthorMeta("b", "X", None, <<2>>)>>,
     <<AuthorMeta("a", "X", None, <<1>>), AuthorMeta("b", "", None, <<2>>),
       AuthorMeta("c", "M", None, <<3>>)>>}

PipelineAuthorResults ==
    {AuthorList(l) : l \in PipelineAuthorLists}
        \cup {[kind |-> "str", text |-> "An error occurred"], [kind |-> "None"]}

ProcessSinglePaper(md, author_answer, entity_answer) ==
    /\ IF ~Truthy(md.title) \/ ~Truthy(md.abstract)
       THEN /\ ret' = FALSE
            /\ UNCHANGED <<graphVars, nextId, cacheVars>>
            /\ last' = [op |-> "process_single_paper", md |-> md, authors |-> <<>>,
                        entities |-> <<>>]
       ELSE \E s1 \in {author_stage(CurS, md, author_answer)} :
            \E is_list \in {s1.author_result.kind = "AuthorList"} :
            \E author_list \in {IF is_list THEN s1.author_result.Authors ELSE <<>>} :
            \E up \in CreditSides(author_list),
               author_hash \in [NewAuthorNames(author_list) -> HashVals],
               affiliation_hash \in [NewAffiliationNames(author_list) -> HashVals] :
            \E head \in {IF is_list
                         THEN process_head(s1.b, author_list, s1.paper, up,
                                           author_hash, affiliation_hash)
                         ELSE [b |-> s1.b, paper_node |-> PaperRef(s1.paper),
                               paper_affiliations |-> {}, raised |-> FALSE]} :
            IF head.raised
            THEN \* the exception reaches `except Exception` of line 193
                 /\ InstallS([s1 EXCEPT !.b = head.b])
                 /\ ret' = FALSE
                 /\ last' = [op |-> "process_single_paper", md |-> md,
                             authors |-> s1.author_result, entities |-> <<>>]
            ELSE \E affiliation_list \in Orderings(head.paper_affiliations) :
                 \E b2 \in {IF is_list THEN process_tail(head, affiliation_list)
                            ELSE s1.b} :
                 \E s3 \in {concept_stage([s1 EXCEPT !.b = b2], md, s1.paper,
                                          entity_answer)} :
                     /\ InstallS(s3)
                     /\ ret' = s3.ret
                     /\ last' = [op |-> "process_single_paper", md |-> md,
                                 authors |-> s1.author_result,
                                 entities |-> s3.entities]
    /\ calls' = calls + 1
    /\ UNCHANGED creditVars

NextPipeline ==
    /\ calls < MaxPipelineCalls
    /\ \E md \in MdFiles, author_answer \in PipelineAuthorResults,
          entity_answer \in EntityResults :
          ProcessSinglePaper(md, author_answer, entity_answer)
    /\ UNCHANGED <<runVars, threadVars>>

SpecPipeline == Init /\ [][NextPipeline]_vars

(***************************************************************************)
(* PaperProcessor.process_all_papers (src/main.py): the files one after    *)
(* the other, each through its author stage and then its concept stage.    *)
(* run.k is the file at hand, run.stage the stage it is at, run.log the    *)
(* steps taken so far.                                                     *)
(***************************************************************************)
MaxRunFiles == 2

\* The for loop left after its first file
papers_done_after_first(r) == r.k > Len(r.md_files) \/ r.k > 1

\* The for loop of line 213 has no file left
papers_done(r) == r.k > Len(r.md_files)

\* The loop goes on to the next file; ok: process_single_paper returned True
next_paper(r, ok, failed_stage) ==
    [r EXCEPT !.k = @ + 1, !.stage = "authors", !.paper = <<>>,
              !.success_count = IF ok THEN @ + 1 ELSE @,
              !.failed = IF failed_stage THEN @ \cup {r.k} ELSE @]

\* What the parser can find in the files of a run
RunMdFiles ==
    {[title |-> t, abstract |-> "abs", content |-> TRUE] : t \in Titles}
        \cup {[title |-> "", abstract |-> "abs", content |-> TRUE]}

RunFileLists == UNION {[1..n -> RunMdFiles] : n \in 0..MaxRunFiles}

\* What the author extractor can answer in a run: lists, a list whose orders
\* are not positions (1 and -1), an error text
RunAuthorResults ==
    {AuthorList(<<AuthorMeta("a", "X", None, <<>>)>>),
     AuthorList(<<AuthorMeta("a", "X", None, <<1>>), AuthorMeta("b", "M", None, <<2>>)>>),
     AuthorList(<<AuthorMeta("a", "", None, <<1>>), AuthorMeta("b", "", None, <<-1>>)>>),
     [kind |-> "str", text |-> "An error occurred"]}

\* Lines 197-211: the files are listed and the loop starts
StartRun(md_files) ==
    /\ run.phase = "idle"
    /\ run' = [phase |-> "papers", md_files |-> md_files, k |-> 1,
               stage |-> "authors", paper |-> <<>>, success_count |-> 0,
               failed |-> {}, attempts |-> [i \in 1..Len(md_files) |-> 0],
               log |-> <<>>]
    /\ ret' = None
    /\ last' = [op |-> "process_all_papers"]
    /\ calls' = calls + 1
    /\ UNCHANGED <<graphVars, nextId, creditVars, cacheVars, threadVars>>

\* Lines 129-172 of process_single_paper for the file at hand: title and
\* abstract, the Paper object, the author extraction and its ingestion
AuthorStage(author_answer) ==
    /\ run.phase = "papers"
    /\ run.stage = "authors"
    /\ ~papers_done(run)
    /\ \E md \in {run.md_files[run.k]} :
       \E r \in {[run EXCEPT !.attempts[run.k] = @ + 1]} :
       IF ~Truthy(md.title) \/ ~Truthy(md.abstract)
       THEN /\ ret' = FALSE
            /\ run' = next_paper(r, FALSE, TRUE)
            /\ last' = [op |-> "author_stage", k |-> run.k, failed |-> TRUE]
            /\ UNCHANGED <<graphVars, nextId, cacheVars>>
       ELSE \E s1 \in {author_stage(CurS, md, author_answer)} :
            \E is_list \in {s1.author_result.kind = "AuthorList"} :
            \E author_list \in {IF is_list THEN s1.author_result.Authors ELSE <<>>} :
            \E up \in CreditSides(author_list),
               author_hash \in [NewAuthorNames(author_list) -> HashVals],
               affiliation_hash \in [NewAffiliationNames(author_list) -> HashVals] :
            \E head \in {IF is_list
                         THEN process_head(s1.b, author_list, s1.paper, up,
                                           author_hash, affiliation_hash)
                         ELSE [b |-> s1.b, paper_node |-> PaperRef(s1.paper),
                               paper_affiliations |-> {}, raised |-> FALSE]} :
            IF head.raised
            THEN /\ InstallS([s1 EXCEPT !.b = head.b])
                 /\ ret' = FALSE
                 /\ run' = next_paper([r EXCEPT !.log = Append(@, <<"authors", run.k>>)],
                                      FALSE, TRUE)
                 /\ last' = [op |-> "author_stage", k |-> run.k, failed |-> TRUE]
            ELSE \E affiliation_list \in Orderings(head.paper_affiliations) :
                 \E b2 \in {IF is_list THEN process_tail(head, affiliation_list)
                            ELSE s1.b} :
                     /\ InstallS([s1 EXCEPT !.b = b2])
                     /\ ret' = None
                     /\ run' = [r EXCEPT !.stage = "concepts", !.paper = <<s1.paper>>,
                                         !.failed = IF is_list THEN @
                                                    ELSE @ \cup {run.k},
                                         !.log = Append(@, <<"authors", run.k>>)]
                     /\ last' = [op |-> "author_stage", k |-> run.k,
                                 failed |-> ~is_list]
    /\ calls' = calls + 1
    /\ UNCHANGED <<creditVars, threadVars>>

\* Lines 174-191 of process_single_paper for the file at hand
ConceptStage(entity_answer) ==
    /\ run.phase = "papers"
    /\ run.stage = "concepts"
    /\ \E s3 \in {concept_stage(CurS, run.md_files[run.k], run.paper[1],
                                entity_answer)} :
          /\ InstallS(s3)
          /\ ret' = s3.ret
    /\ run' = next_paper([run EXCEPT !.log = Append(@, <<"concepts", run.k>>)],
                         TRUE, FALSE)
    /\ last' = [op |-> "concept_stage", k |-> run.k, failed |-> FALSE]
    /\ calls' = calls + 1
    /\ UNCHANGED <<creditVars, threadVars>>

(***************************************************************************)
(* The resolution pass of process_all_papers (src/main.py lines 233-252).  *)
(* find_similar_entity_names and combine_entities_by_name are called on    *)
(* the builder; they follow the Entity Resolver of the design: groups of   *)
(* near-duplicate names under an edit-distance threshold, and a merge that *)
(* re-points every incident edge and removes the merged node.              *)
(***************************************************************************)
\* A name as the sequence of its characters
NameChars(name) ==
    CASE name = "kg" -> <<"k", "g">>
      [] name = "kb" -> <<"k", "b">>
      [] name = "kgs" -> <<"k", "g", "s">>
      [] name = "llm" -> <<"l", "l", "m">>

\* len(name)
NameLen(name) == Len(NameChars(name))

Min2(x, y) == IF x <= y THEN x ELSE y

\* The edit distance of two character sequences
RECURSIVE edit_distance(_, _)
edit_distance(s, t) ==
    IF Len(s) = 0 THEN Len(t)
    ELSE IF Len(t) = 0 THEN Len(s)
    ELSE IF Head(s) = Head(t) THEN edit_distance(Tail(s), Tail(t))
    ELSE 1 + Min2(edit_distance(Tail(s), Tail(t)),
                  Min2(edit_distance(Tail(s), t), edit_distance(s, Tail(t))))

\* The names within the threshold of a name of S, with S itself
similar_names(b, S, threshold) ==
    S \cup {n \in DOMAIN b.entities :
               \E m \in S : edit_distance(NameChars(n), NameChars(m)) <= threshold}

RECURSIVE duplicate_group(_, _, _)
duplicate_group(b, S, threshold) ==
    IF similar_names(b, S, threshold) = S THEN S
    ELSE duplicate_group(b, similar_names(b, S, threshold), threshold)

\* The groups of two or more concept names that are near-duplicates
find_similar_entity_names(b, threshold) ==
    {g \in {duplicate_group(b, {n}, threshold) : n \in DOMAIN b.entities} :
        Cardinality(g) >= 2}

\* sorted(list(group), key=len): a stable sort, names of one length stay in the
\* order of the list
sorted_by_len(group_list) ==
    CHOOSE s \in Orderings({group_list[i] : i \in 1..Len(group_list)}) :
        \A i, j \in 1..Len(s) :
            i < j => \/ NameLen(s[i]) < NameLen(s[j])
                     \/ /\ NameLen(s[i]) = NameLen(s[j])
                        /\ \A p, q \in 1..Len(group_list) :
                               (group_list[p] = s[i] /\ group_list[q] = s[j]) => p < q

\* An edge of the graph with the end B replaced by A
repointed(e, B, A) ==
    [e EXCEPT !.source = IF @ = B THEN A ELSE @,
              !.target = IF @ = B THEN A ELSE @]

\* The edges of the graph one after the other: an edge incident on B is taken
\* out and put back between its new ends with its attributes, under the next
\* free key of the MultiDiGraph
\* The number of edges of g from u to v
CountBetween(g, u, v) == Cardinality(EdgesBetween(g, u, v))

RECURSIVE repoint_edges(_, _, _, _)
repoint_edges(done, todo, B, A) ==
    IF todo = <<>> THEN done
    ELSE LET e == Head(todo)
             r == repointed(e, B, A)
             key == CountBetween(done, r.source, r.target)
                        + CountBetween(Tail(todo), r.source, r.target)
         IN  IF e.source # B /\ e.target # B
             THEN repoint_edges(Append(done, e), Tail(todo), B, A)
             ELSE repoint_edges(Append(done, [r EXCEPT !.key = key]), Tail(todo),
                                B, A)

\* The edge object with the end B replaced by A
repointed_object(edge, source_ref, target_ref) ==
    [edge EXCEPT !.source = IF @ = source_ref THEN target_ref ELSE @,
                 !.target = IF @ = source_ref THEN target_ref ELSE @]

\* combine_entities_by_name that re-points the edges leaving the merged node
\* only: the edges that arrive at it go with the node
combine_entities_by_name_outgoing_only(b, source_name, target_name) ==
    IF \/ source_name \notin DOMAIN b.entities
       \/ target_name \notin DOMAIN b.entities
       \/ source_name = target_name
    THEN b
    ELSE LET source_ref == EntityRef(b.entities[source_name])
             target_ref == EntityRef(b.entities[target_name])
             B == source_ref.oid
             A == target_ref.oid
         IN  [b EXCEPT
                 !.gedges = repoint_edges(<<>>, SelectSeq(@, LAMBDA e : e.target # B),
                                          B, A),
                 !.nodes = [n \in DOMAIN @ \ {B} |-> @[n]],
                 !.entities = [n \in DOMAIN @ \ {source_name} |-> @[n]]]

\* combine_entities_by_name: the concept source_name is merged into the
\* concept target_name
combine_entities_by_name(b, source_name, target_name) ==
    IF \/ source_name \notin DOMAIN b.entities
       \/ target_name \notin DOMAIN b.entities
       \/ source_name = target_name
    THEN b
    ELSE LET source_ref == EntityRef(b.entities[source_name])
             target_ref == EntityRef(b.entities[target_name])
             B == source_ref.oid
             A == target_ref.oid
         IN  [b EXCEPT
                 !.gedges = repoint_edges(<<>>, @, B, A),
                 !.edges = [i \in 1..Len(@) |->
                               repointed_object(@[i], source_ref, target_ref)],
                 !.nodes = [n \in DOMAIN @ \ {B} |-> @[n]],
                 !.entities = [n \in DOMAIN @ \ {source_name} |-> @[n]]]

\* for source_name in sorted_group[1:]: combine_entities_by_name(...)
RECURSIVE combine_loop(_, _, _, _)
combine_loop(b, sorted_group, j, canonical_name) ==
    IF j > Len(sorted_group) THEN b
    ELSE combine_loop(combine_entities_by_name(b, sorted_group[j], canonical_name),
                      sorted_group, j + 1, canonical_name)

\* Lines 234-240: the groups are found; the for loop takes them in some order
FindSimilarEntityNames(group_list) ==
    /\ run.phase = "papers"
    /\ papers_done(run)
    /\ run' = [phase |-> "resolve", groups |-> group_list, g |-> 1,
               log |-> Append(run.log, <<"resolve", 0>>)] @@ run
    /\ ret' = None
    /\ last' = [op |-> "find_similar_entity_names"]
    /\ calls' = calls + 1
    /\ UNCHANGED <<graphVars, nextId, creditVars, cacheVars, threadVars>>

\* Lines 240-252 for one group: the canonical name and the merges into it
MergeGroup(member_list) ==
    /\ run.phase = "resolve"
    /\ run.g <= Len(run.groups)
    /\ \E sorted_group \in {sorted_by_len(member_list)} :
       \E canonical_name \in {sorted_group[1]} :
          /\ Install(combine_loop(Cur, sorted_group, 2, canonical_name))
          /\ last' = [op |-> "merge_group", group |-> run.groups[run.g],
                      canonical_name |-> canonical_name,
                      sources |-> Tail(sorted_group)]
    /\ run' = [run EXCEPT !.g = @ + 1, !.log = Append(@, <<"merge", run.g>>)]
    /\ ret' = None
    /\ calls' = calls + 1
    /\ UNCHANGED <<creditVars, cacheVars, threadVars>>

(***************************************************************************)
(* KnowledgeGraphBuilder.export_to_json (src/construct.py) and the         *)
(* read-only KnowledgeGraphAnalyzer (src/graph_handle.py).  The file is    *)
(* the node-link document: its nodes (one record per node id; the order of *)
(* the array plays no part in what is counted) and its links in the order  *)
(* of the edges.                                                           *)
(***************************************************************************)
PaperListKeys ==
    {"coauthored_papers", "collaboration_papers", "coauthored_paper_list",
     "collaboration_paper_list"}

\* json.dump of an Optional[str] attribute: None is written as null
JsonValue(v) == IF v = None THEN JsonNull ELSE v

\* The attributes that can be None
OptionalKeys == {"email"}

\* A node of the copy without its node_object, under its id
export_node(n, data) ==
    [k \in (DOMAIN data \ {"node_object"}) \cup {"id"} |->
        IF k = "id" THEN n
        ELSE IF k \in OptionalKeys THEN JsonValue(data[k])
        ELSE data[k]]

\* export_edge_data that writes the title of the first paper of a list only
export_edge_data_first_title(data) ==
    [k \in DOMAIN data \ {"edge_object"} |->
        IF k \in PaperListKeys
        THEN IF Len(data[k]) > 0 /\ data[k][1].cls = "Paper"
             THEN <<data[k][1].key>>
             ELSE data[k]
        ELSE data[k]]

\* The attributes of an edge of the copy: no edge_object, the Paper objects of
\* the paper lists replaced by their titles
export_edge_data(data) ==
    [k \in DOMAIN data \ {"edge_object"} |->
        IF k \in PaperListKeys
        THEN IF Len(data[k]) > 0 /\ data[k][1].cls = "Paper"
             THEN [i \in 1..Len(data[k]) |-> data[k][i].key]
             ELSE data[k]
        ELSE data[k]]

export_link(e) ==
    [source |-> e.source, target |-> e.target, key |-> e.key]
        @@ export_edge_data(e.data)

export_to_json(b) ==
    [directed |-> TRUE, multigraph |-> TRUE,
     nodes |-> {export_node(n, b.nodes[n]) : n \in DOMAIN b.nodes},
     links |-> [i \in 1..Len(b.gedges) |-> export_link(b.gedges[i])]]

\* What the loops of export_to_json leave of a graph they run over: no
\* node_object, no edge_object, titles for the Paper objects of the lists
prepared_for_export(g) ==
    [nodes |-> [n \in DOMAIN g.nodes |->
                   [k \in DOMAIN g.nodes[n] \ {"node_object"} |-> g.nodes[n][k]]],
     gedges |-> [i \in 1..Len(g.gedges) |->
                    [g.gedges[i] EXCEPT !.data = export_edge_data(@)]]]

\* export_to_json with `export_graph = self.graph`: the loops run over the
\* builder's own graph
export_to_json_call_without_copy(b) ==
    LET export_graph == prepared_for_export([nodes |-> b.nodes, gedges |-> b.gedges])
    IN  [b |-> [b EXCEPT !.nodes = export_graph.nodes,
                         !.gedges = export_graph.gedges],
         document |-> export_to_json(b)]

\* The call of export_to_json: the builder it leaves and the document it
\* writes.  self.graph.copy() gives the copy attribute dicts of its own (the
\* values in them are shared); the loops delete keys of, and assign keys in,
\* the dicts of the copy and change no value in place, so nothing the builder
\* holds is written.
export_to_json_call(b) ==
    [b |-> b, document |-> export_to_json(b)]

\* dict.get(key): None when the key is missing, None for a null of the file
JsonGet(d, key) ==
    IF key \in DOMAIN d THEN (IF d[key] = JsonNull THEN None ELSE d[key]) ELSE None

\* _parse_nodes: one dict per node type, keyed by node id
parse_nodes(graph_data, node_type) ==
    LET hits == {node \in graph_data.nodes : JsonGet(node, "node_type") = node_type}
    IN  [id \in {node.id : node \in hits} |->
            CHOOSE node \in hits : node.id = id]

\* _parse_edges that keeps one edge per source, target and type
parse_edges_one_per_pair(graph_data) ==
    LET links == graph_data.links
        types == {JsonGet(links[i], "edge_type") : i \in 1..Len(links)}
        first(i) == \A j \in 1..(i - 1) :
                        \/ links[j].source # links[i].source
                        \/ links[j].target # links[i].target
                        \/ JsonGet(links[j], "edge_type") # JsonGet(links[i], "edge_type")
        kept == {i \in 1..Len(links) : first(i)}
    IN  [t \in types |->
            SelectSeq([i \in 1..Len(links) |-> IF i \in kept THEN links[i] ELSE <<>>],
                      LAMBDA e : e # <<>> /\ JsonGet(e, "edge_type") = t)]

\* _parse_edges: edges_by_type, every link appended to the list of its type
parse_edges(graph_data) ==
    LET links == graph_data.links
        types == {JsonGet(links[i], "edge_type") : i \in 1..Len(links)}
    IN  [t \in types |-> SelectSeq(links, LAMBDA e : JsonGet(e, "edge_type") = t)]

load_from_json(graph_data) ==
    [graph_data |-> graph_data,
     papers |-> parse_nodes(graph_data, "Paper"),
     authors |-> parse_nodes(graph_data, "Author"),
     affiliations |-> parse_nodes(graph_data, "Affiliation"),
     entities |-> parse_nodes(graph_data, "Entity"),
     edges_by_type |-> parse_edges(graph_data)]

get_statistics(analyzer) ==
    [total_nodes |-> Cardinality(analyzer.graph_data.nodes),
     total_edges |-> Len(analyzer.graph_data.links),
     node_counts |-> [papers |-> Cardinality(DOMAIN analyzer.papers),
                      authors |-> Cardinality(DOMAIN analyzer.authors),
                      affiliations |-> Cardinality(DOMAIN analyzer.affiliations),
                      entities |-> Cardinality(DOMAIN analyzer.entities)],
     edge_counts |-> [t \in DOMAIN analyzer.edges_by_type |->
                         Len(analyzer.edges_by_type[t])]]

\* Lines 254-257 of process_all_papers: the export, once the groups are merged
ExportToJson ==
    /\ run.phase = "resolve"
    /\ run.g > Len(run.groups)
    /\ \E r \in {export_to_json_call(Cur)} :
          /\ Install(r.b)
          /\ run' = [phase |-> "exported", file |-> r.document,
                     log |-> Append(run.log, <<"export", 0>>)] @@ run
    /\ ret' = None
    /\ last' = [op |-> "export_to_json"]
    /\ calls' = calls + 1
    /\ UNCHANGED <<creditVars, cacheVars, threadVars>>

\* KnowledgeGraphAnalyzer(json_file_path) on the exported file, then
\* get_statistics()
LoadFromJson ==
    /\ run.phase = "exported"
    /\ \E analyzer \in {load_from_json(run.file)} :
          /\ run' = [phase |-> "loaded", analyzer |-> analyzer] @@ run
          /\ ret' = get_statistics(analyzer)
    /\ last' = [op |-> "load_from_json"]
    /\ calls' = calls + 1
    /\ UNCHANGED <<graphVars, nextId, creditVars, cacheVars, threadVars>>

\* What the entity extractor can answer in a run
RunEntityResults ==
    {[entities |-> <<>>, relations |-> <<>>],
     [entities |-> <<EntityAnswer("kg", "CONCEPT")>>, relations |-> <<>>],
     [entities |-> <<EntityAnswer("kb", "CONCEPT")>>, relations |-> <<>>],
     [entities |-> <<EntityAnswer("kgs", "CONCEPT"), EntityAnswer("llm", "METHOD")>>,
      relations |-> <<[source |-> 1, target |-> 2, description |-> "uses",
                       strength |-> 5000]>>]}

NextRun ==
    \/ \E md_files \in RunFileLists : StartRun(md_files)
    \/ \E author_answer \in RunAuthorResults : AuthorStage(author_answer)
    \/ \E entity_answer \in RunEntityResults : ConceptStage(entity_answer)
    \/ \E group_list \in Orderings(find_similar_entity_names(Cur, 2)) :
           FindSimilarEntityNames(group_list)
    \/ /\ run.phase = "resolve"
       /\ run.g <= Len(run.groups)
       /\ \E member_list \in Orderings(run.groups[run.g]) : MergeGroup(member_list)
    \/ ExportToJson
    \/ LoadFromJson

SpecRun == Init /\ [][NextRun]_vars

(***************************************************************************)
(* Ingestion and the clearing of the cache: process_single_paper,          *)
(* PaperCache.clear_cache (src/paper_cache.py lines 208-220) and           *)
(* PaperProcessor.clear_cache_for_paper (src/main.py lines 259-273).       *)
(***************************************************************************)
MaxClearCalls == 3

\* clear_cache that asks for no confirmation and clears nothing
clear_cache_nothing(c, confirm, outcome) == c

clear_cache(c, confirm, outcome) ==
    IF confirm
    THEN save_cache([c EXCEPT !.cache_data = EmptyMap], outcome)
    ELSE c

clear_cache_for_paper(c, title, outcome) ==
    IF has_paper(c, title)
    THEN save_cache([c EXCEPT !.cache_data =
                        [id \in DOMAIN @ \ {generate_paper_id(title)} |-> @[id]]],
                    outcome)
    ELSE c

ClearCache(confirm, outcome) ==
    /\ InstallCache(clear_cache(CurCache, confirm, outcome))
    /\ ret' = None
    /\ last' = [op |-> "clear_cache", confirm |-> confirm, outcome |-> outcome]
    /\ calls' = calls + 1
    /\ UNCHANGED <<graphVars, nextId, extractor_calls, creditVars>>

ClearCacheForPaper(title, outcome) ==
    /\ InstallCache(clear_cache_for_paper(CurCache, title, outcome))
    /\ ret' = None
    /\ last' = [op |-> "clear_cache_for_paper", name |-> title,
                outcome |-> outcome]
    /\ calls' = calls + 1
    /\ UNCHANGED <<graphVars, nextId, extractor_calls, creditVars>>

NextClear ==
    /\ calls < MaxClearCalls
    /\ \/ \E md \in {f \in RunMdFiles : f.title # ""},
             author_answer \in {r \in RunAuthorResults :
                                   r.kind = "AuthorList" => Len(r.Authors) = 1},
             entity_answer \in {r \in RunEntityResults : Len(r.entities) <= 1} :
             ProcessSinglePaper(md, author_answer, entity_answer)
       \/ \E confirm \in BOOLEAN, outcome \in SaveOutcomes :
             ClearCache(confirm, outcome)
       \/ \E title \in Titles, outcome \in SaveOutcomes :
             ClearCacheForPaper(title, outcome)
    /\ UNCHANGED <<runVars, threadVars>>

SpecClear == Init /\ [][NextClear]_vars

(***************************************************************************)
(* process_author_list_and_paper over the orders an extractor can give:    *)
(* Author_Order is `int | None` (Author_metadata.py:14) and is taken from  *)
(* the answer as it comes (Author_metadata.py:148)                         *)
(***************************************************************************)
MaxOrderCalls == 2

\* Lists of up to two authors with the orders None, 0, 1, 2, and the lists of
\* one author with the order -1
OrderLists ==
    AuthorLists({AuthorMeta(n, "", None, o) :
                    n \in Names, o \in {<<>>, <<0>>, <<1>>, <<2>>}})
        \cup {<<AuthorMeta(n, "", None, <<-1>>)>> : n \in Names}

IngestWithOrders(author_list, title) ==
    /\ \E up \in CreditSides(author_list),
          author_hash \in [NewAuthorNames(author_list) -> HashVals] :
          \E b \in {process_author_list_and_paper(
                        AfterNewPaper(Cur), author_list, NewPaper(Cur, title), up,
                        author_hash, EmptyMap, <<>>)} :
              Install(b)
    /\ ret' = None
    /\ last' = [op |-> "process_author_list_and_paper",
                author_list |-> author_list, name |-> title]
    /\ calls' = calls + 1
    /\ UNCHANGED <<creditVars, cacheVars, runVars, threadVars>>

NextOrder ==
    /\ calls < MaxOrderCalls
    /\ \E author_list \in OrderLists, title \in Titles :
          IngestWithOrders(author_list, title)

SpecOrder == Init /\ [][NextOrder]_vars

(***************************************************************************)
(* src/constrcutKG.py: the KnowledgeGraphBuilder without the credit, the   *)
(* entities and the export.  Its get_or_create_author,                     *)
(* get_or_create_affiliation and add_paper are those of construct.py       *)
(* (less the display attributes); its process_author_list_and_paper looks  *)
(* up an existing edge in line and does not write the graph attribute      *)
(* when it finds one.                                                      *)
(***************************************************************************)
MaxConstrcutKGCalls == 2

\* constrcutKG.py:122 : Author_Order when it is there and truthy, else 0
constrcutKG_author_order(author_meta) ==
    IF author_meta.Author_Order = <<>> THEN 0 ELSE author_meta.Author_Order[1]

\* constrcutKG.py:112-162 : one turn of the author loop
constrcutKG_process_author(st, author_meta, paper_node, author_hash, affiliation_hash) ==
    LET r1 == get_or_create_author(st.b, author_meta.Name, author_meta.Email,
                                   HashFor(author_hash, author_meta.Name))
        author_node == r1.ret
        author_order == constrcutKG_author_order(author_meta)
        author_paper_edge == AuthorPaperEdge(author_node, paper_node, author_order)
        b2 == [r1.b EXCEPT !.edges = Append(@, author_paper_edge)]
        b3 == add_edge(b2, author_node.oid, paper_node.key,
                       [edge_type |-> "AuthorPaper", author_order |-> author_order,
                        weight |-> 0, edge_object |-> Len(b2.edges)])
        st3 == [b |-> b3, author_nodes |-> Append(st.author_nodes, author_node),
                paper_affiliations |-> st.paper_affiliations]
    IN  IF ~Truthy(author_meta.Affiliation) THEN st3
        ELSE LET r4 == get_or_create_affiliation(
                           b3, author_meta.Affiliation,
                           HashFor(affiliation_hash, author_meta.Affiliation))
                 affiliation_node == r4.ret
                 author_affiliation_edge ==
                     AuthorAffiliationEdge(author_node, affiliation_node)
                 b5 == [r4.b EXCEPT !.edges = Append(@, author_affiliation_edge)]
                 b6 == IF ~has_edge(b5, author_node.oid, affiliation_node.key)
                       THEN add_edge(b5, author_node.oid, affiliation_node.key,
                                     [edge_type |-> "AuthorAffiliation", rank |-> 0,
                                      edge_object |-> Len(b5.edges)])
                       ELSE b5
             IN  [b |-> b6, author_nodes |-> st3.author_nodes,
                  paper_affiliations |->
                      st.paper_affiliations \cup {affiliation_node}]

RECURSIVE constrcutKG_process_authors(_, _, _, _, _, _)
constrcutKG_process_authors(st, author_list, i, paper_node, author_hash, affiliation_hash) ==
    IF i > Len(author_list) THEN st
    ELSE constrcutKG_process_authors(
             constrcutKG_process_author(st, author_list[i], paper_node,
                                        author_hash, affiliation_hash),
             author_list, i + 1, paper_node, author_hash, affiliation_hash)

\* constrcutKG.py:165-193 : one turn of the co-author loop.  The edge found is
\* the edge_object of the first Coauthor edge source->target; it takes the
\* paper, the graph attribute coauthored_papers is left as it is.
constrcutKG_coauthor_step(b, author1, author2, paper_node) ==
    LET coauthor_edge == AuthorCoauthorEdge(author1, author2, paper_node)
        b1 == [b EXCEPT !.edges = Append(@, coauthor_edge)]
        source_id == coauthor_edge.source.oid
        target_id == coauthor_edge.target.oid
        pos == find_existing_edge(b1, source_id, target_id, "Coauthor")
    IN  IF pos # 0
        THEN [b1 EXCEPT !.edges[b1.gedges[pos].data.edge_object] =
                            add_coauthored_paper(@, paper_node)]
        ELSE add_edge(b1, source_id, target_id,
                      [edge_type |-> "Coauthor", weight |-> 0,
                       coauthored_papers |-> <<paper_node>>,
                       edge_object |-> Len(b1.edges)])

RECURSIVE constrcutKG_coauthor_loop(_, _, _, _, _)
constrcutKG_coauthor_loop(b, author_nodes, pairs, k, paper_node) ==
    IF k > Len(pairs) THEN b
    ELSE constrcutKG_coauthor_loop(
             constrcutKG_coauthor_step(b, author_nodes[pairs[k][1]],
                                       author_nodes[pairs[k][2]], paper_node),
             author_nodes, pairs, k + 1, paper_node)

\* constrcutKG.py:211-242 : one turn of the affiliation-collaboration loop
constrcutKG_collaboration_step(b, affiliation1, affiliation2, paper_node) ==
    LET collab_edge == AffiliationCollaborationEdge(affiliation1, affiliation2,
                                                    paper_node)
        b1 == [b EXCEPT !.edges = Append(@, collab_edge)]
        source_name == collab_edge.source.key
        target_name == collab_edge.target.key
        pos == find_existing_edge(b1, source_name, target_name,
                                  "AffiliationCollaboration")
    IN  IF pos # 0
        THEN [b1 EXCEPT !.edges[b1.gedges[pos].data.edge_object] =
                            add_collaboration_paper(@, paper_node)]
        ELSE add_edge(b1, source_name, target_name,
                      [edge_type |-> "AffiliationCollaboration", weight |-> 0,
                       collaboration_papers |-> <<paper_node>>,
                       edge_object |-> Len(b1.edges)])

RECURSIVE constrcutKG_collaboration_loop(_, _, _, _, _)
constrcutKG_collaboration_loop(b, affiliation_list, pairs, k, paper_node) ==
    IF k > Len(pairs) THEN b
    ELSE constrcutKG_collaboration_loop(
             constrcutKG_collaboration_step(b, affiliation_list[pairs[k][1]],
                                            affiliation_list[pairs[k][2]],
                                            paper_node),
             affiliation_list, pairs, k + 1, paper_node)

\* constrcutKG.py:97-193 : the paper, the author loop, the co-author loop
constrcutKG_head(b, author_list, paper, author_hash, affiliation_hash) ==
    LET r0 == add_paper(b, paper)
        paper_node == r0.ret
        st == constrcutKG_process_authors(
                  [b |-> r0.b, author_nodes |-> <<>>, paper_affiliations |-> {}],
                  author_list, 1, paper_node, author_hash, affiliation_hash)
        b1 == constrcutKG_coauthor_loop(st.b, st.author_nodes,
                                        Pairs(Len(st.author_nodes)), 1, paper_node)
    IN  [b |-> b1, paper_node |-> paper_node,
         paper_affiliations |-> st.paper_affiliations]

\* constrcutKG.py:195-242 : the two loops over paper_affiliations
constrcutKG_tail(head, affiliation_list) ==
    LET b1 == paper_affiliation_loop(head.b, affiliation_list, 1, head.paper_node)
    IN  constrcutKG_collaboration_loop(b1, affiliation_list,
                                       Pairs(Len(affiliation_list)), 1,
                                       head.paper_node)

ConstrcutKGMetas == {AuthorMeta(n, f, None, <<>>) : n \in Names, f \in {"", "X", "M"}}

ConstrcutKGProcess(author_list, title) ==
    /\ \E author_hash \in [NewAuthorNames(author_list) -> HashVals],
          affiliation_hash \in [NewAffiliationNames(author_list) -> HashVals] :
          \E head \in {constrcutKG_head(AfterNewPaper(Cur), author_list,
                                        NewPaper(Cur, title), author_hash,
                                        affiliation_hash)} :
             \E affiliation_list \in Orderings(head.paper_affiliations) :
                 Install(constrcutKG_tail(head, affiliation_list))
    /\ ret' = None
    /\ last' = [op |-> "process_author_list_and_paper",
                author_list |-> author_list, name |-> title]
    /\ calls' = calls + 1
    /\ UNCHANGED <<creditVars, cacheVars, runVars, threadVars>>

NextConstrcutKG ==
    /\ calls < MaxConstrcutKGCalls
    /\ \E author_list \in AuthorLists(ConstrcutKGMetas), title \in Titles :
          ConstrcutKGProcess(author_list, title)

SpecConstrcutKG == Init /\ [][NextConstrcutKG]_vars

(***************************************************************************)
(* Callers of process_author_list_and_paper side by side                   *)
(* (src/construct.py lines 198-358).  A caller can be overtaken between    *)
(* two statements: between the test `name not in self.authors` and the     *)
(* insert of get_or_create_author, and between find_existing_edge and the  *)
(* add_edge or update of the co-author loop.  threads.locked says whether  *)
(* the callers take one lock around the whole call.                        *)
(***************************************************************************)
MaxThreads == 2

Threads == 1..MaxThreads

\* The paper a caller ingests
ThreadTitle(t) == IF t = 1 THEN "T" ELSE "X"

\* The author lists the callers ingest: one pair of authors, in either order
ThreadLists ==
    {<<AuthorMeta("a", "", None, <<1>>), AuthorMeta("b", "", None, <<2>>)>>,
     <<AuthorMeta("b", "", None, <<1>>), AuthorMeta("a", "", None, <<2>>)>>}

InitThreaded ==
    /\ InitBuilder
    /\ InitCache
    /\ InitRun
    /\ creditIn = <<>>
    /\ creditOut = [returned |-> FALSE]
    /\ \E locked \in BOOLEAN, lists \in [Threads -> ThreadLists] :
          threads = [mode |-> "threads", locked |-> locked, holder |-> 0,
                     th |-> [t \in Threads |->
                                [pc |-> "idle", author_list |-> lists[t]]]]

\* The caller may take its next step: it holds the lock, or there is none
MayStep(t) == ~threads.locked \/ threads.holder = t

\* The builder as the caller believes it to be after the test
\* `name not in self.authors` came out true: the insert puts a new Author
\* under the name whatever is there by now
AsTested(b, name, exists) ==
    IF exists THEN b
    ELSE [b EXCEPT !.authors = [n \in DOMAIN @ \ {name} |-> @[n]]]

\* Lines 272-283: the edge object of the pair and the search for its edge
coauthor_find(b, author1, author2, paper_node) ==
    LET coauthor_edge == AuthorCoauthorEdge(author1, author2, paper_node)
        b1 == [b EXCEPT !.edges = Append(@, coauthor_edge)]
        source_id == coauthor_edge.source.oid
        target_id == coauthor_edge.target.oid
    IN  [b |-> b1, source_id |-> source_id, target_id |-> target_id,
         new_edge |-> Len(b1.edges),
         pos |-> find_existing_edge(b1, source_id, target_id, "Coauthor")]

\* Lines 285-304: the update of the edge that was found, or the new edge
coauthor_apply(b, found, paper_node) ==
    IF found.pos # 0
    THEN LET eo == b.gedges[found.pos].data.edge_object
             b2 == [b EXCEPT !.edges[eo] = add_coauthored_paper(@, paper_node)]
         IN  update_edge_in_graph(b2, found.pos,
                 [coauthored_papers |->
                      b2.edges[eo].attributes.coauthored_paper_list])
    ELSE add_edge(b, found.source_id, found.target_id,
                  [edge_type |-> "Coauthor", weight |-> 0,
                   coauthored_papers |-> <<paper_node>>,
                   edge_object |-> found.new_edge])

\* The step after the author loop or after a pair of the co-author loop
AfterPair(author_nodes, k) ==
    IF k <= Len(Pairs(Len(author_nodes))) THEN "edge_find" ELSE "finish"

ThreadStep(t, th, op) ==
    /\ threads' = [threads EXCEPT !.th[t] = th]
    /\ ret' = None
    /\ last' = [op |-> op, t |-> t]
    /\ calls' = calls + 1
    /\ UNCHANGED <<creditVars, cacheVars, runVars>>

\* Lines 203-211: the lock if there is one, the paper, the credit
BeginIngestion(t) ==
    /\ threads.mode = "threads"
    /\ threads.th[t].pc = "idle"
    /\ ~threads.locked \/ threads.holder = 0
    /\ \E paper \in {NewPaper(Cur, ThreadTitle(t))} :
       \E r0 \in {add_paper(AfterNewPaper(Cur), paper)} :
       \E up \in CreditSides(threads.th[t].author_list) :
          /\ Install(r0.b)
          /\ threads' = [threads EXCEPT
                 !.holder = IF threads.locked THEN t ELSE 0,
                 !.th[t] = [pc |-> "author_test",
                            author_list |-> threads.th[t].author_list,
                            paper_node |-> r0.ret,
                            author_weights |->
                                calculate_author_credit(threads.th[t].author_list, up),
                            i |-> 1, exists |-> FALSE, author_nodes |-> <<>>,
                            k |-> 1, found |-> <<>>]]
    /\ ret' = None
    /\ last' = [op |-> "begin_ingestion", t |-> t]
    /\ calls' = calls + 1
    /\ UNCHANGED <<creditVars, cacheVars, runVars>>

\* Line 56: if name not in self.authors
AuthorTest(t) ==
    /\ threads.mode = "threads"
    /\ threads.th[t].pc = "author_test"
    /\ MayStep(t)
    /\ ThreadStep(t, [threads.th[t] EXCEPT
                         !.pc = "author_insert",
                         !.exists = threads.th[t].author_list[threads.th[t].i].Name
                                        \in DOMAIN authors],
                  "author_test")
    /\ UNCHANGED <<graphVars, nextId>>

\* Lines 57-71 and 221-267: the insert or the email update, then the rest of
\* the turn of the author loop
AuthorInsert(t, h) ==
    /\ threads.mode = "threads"
    /\ threads.th[t].pc = "author_insert"
    /\ MayStep(t)
    /\ \E me \in {threads.th[t]} :
       \E author_meta \in {me.author_list[me.i]} :
       \E st \in {process_author(
                      [b |-> AsTested(Cur, author_meta.Name, me.exists),
                       author_nodes |-> me.author_nodes,
                       paper_affiliations |-> {}],
                      author_meta, me.paper_node, me.author_weights,
                      [n \in {author_meta.Name} |-> h], EmptyMap)} :
          /\ Install(st.b)
          /\ ThreadStep(t, [me EXCEPT
                               !.author_nodes = st.author_nodes,
                               !.i = @ + 1,
                               !.pc = IF me.i < Len(me.author_list)
                                      THEN "author_test"
                                      ELSE AfterPair(st.author_nodes, 1)],
                        "author_insert")

\* Lines 272-283 for the pair at hand
EdgeFind(t) ==
    /\ threads.mode = "threads"
    /\ threads.th[t].pc = "edge_find"
    /\ MayStep(t)
    /\ \E me \in {threads.th[t]} :
       \E pair \in {Pairs(Len(me.author_nodes))[me.k]} :
       \E found \in {coauthor_find(Cur, me.author_nodes[pair[1]],
                                   me.author_nodes[pair[2]], me.paper_node)} :
          /\ Install(found.b)
          /\ ThreadStep(t, [me EXCEPT !.pc = "edge_apply",
                                      !.found = [source_id |-> found.source_id,
                                                 target_id |-> found.target_id,
                                                 new_edge |-> found.new_edge,
                                                 pos |-> found.pos]],
                        "edge_find")

\* Lines 285-304 for the pair at hand
EdgeApply(t) ==
    /\ threads.mode = "threads"
    /\ threads.th[t].pc = "edge_apply"
    /\ MayStep(t)
    /\ \E me \in {threads.th[t]} :
          /\ Install(coauthor_apply(Cur, me.found, me.paper_node))
          /\ ThreadStep(t, [me EXCEPT !.k = @ + 1,
                                      !.pc = AfterPair(me.author_nodes, me.k + 1)],
                        "edge_apply")

\* Lines 306-358 (no affiliation in these lists), the return, the lock
FinishIngestion(t) ==
    /\ threads.mode = "threads"
    /\ threads.th[t].pc = "finish"
    /\ MayStep(t)
    /\ Install(process_tail([b |-> Cur, paper_node |-> threads.th[t].paper_node],
                            <<>>))
    /\ threads' = [threads EXCEPT !.holder = 0, !.th[t].pc = "done"]
    /\ ret' = None
    /\ last' = [op |-> "finish_ingestion", t |-> t]
    /\ calls' = calls + 1
    /\ UNCHANGED <<creditVars, cacheVars, runVars>>

NextThreads ==
    \/ \E t \in Threads : BeginIngestion(t)
    \/ \E t \in Threads : AuthorTest(t)
    \/ \E t \in Threads, h \in HashVals : AuthorInsert(t, h)
    \/ \E t \in Threads : EdgeFind(t)
    \/ \E t \in Threads : EdgeApply(t)
    \/ \E t \in Threads : FinishIngestion(t)

SpecThreads == InitThreaded /\ [][NextThreads]_vars

(***************************************************************************)
(* Properties                                                              *)
(*   Every call of the builder, the cache and the processor counts in      *)
(*   calls, so the steps that leave calls alone are the stuttering steps:  *)
(*   the properties of steps are stated as [][A]_calls.                    *)
(***************************************************************************)
EdgeTypes == {"AuthorPaper", "AuthorAffiliation", "Coauthor", "PaperAffiliation",
              "AffiliationCollaboration", "PaperEntity", "Citation"}

EdgesOfType(g, t) == {i \in 1..Len(g) : g[i].data.edge_type = t}

CountEdges(g, u, v, t) ==
    Cardinality({i \in EdgesBetween(g, u, v) : g[i].data.edge_type = t})

\* Coauthor edges between two author ids, in either direction
CoauthorEdges(g, x, y) ==
    {i \in EdgesOfType(g, "Coauthor") :
        \/ g[i].source = x /\ g[i].target = y
        \/ g[i].source = y /\ g[i].target = x}

\* AuthorCoauthorEdge objects ever built for the two authors
CoauthorObjects(x, y) ==
    {i \in 1..Len(edges) :
        /\ edges[i].cls = "AuthorCoauthorEdge"
        /\ {edges[i].source.oid, edges[i].target.oid} = {x, y}}

NoDuplicateTitles(list) ==
    \A i, j \in 1..Len(list) : i # j => list[i].key # list[j].key

Abs(x) == IF x < 0 THEN 0 - x ELSE x

\* This step is a second process_author_list_and_paper with the arguments of
\* the call before it
RepeatedIngestion ==
    /\ calls' = calls + 1
    /\ last.op = "process_author_list_and_paper"
    /\ last'.op = "process_author_list_and_paper"
    /\ last'.author_list = last.author_list
    /\ last'.name = last.name

\* C1: re-ingestion is idempotent: a second process_author_list_and_paper with
\* the same author list and paper leaves the node set and the number of edges
\* per (source, target, edge_type) as the first call left them.
C1_ReingestionIdempotent ==
    [][RepeatedIngestion =>
          /\ DOMAIN nodes' = DOMAIN nodes
          /\ \A u \in DOMAIN nodes, v \in DOMAIN nodes, t \in EdgeTypes :
                CountEdges(gedges', u, v, t) = CountEdges(gedges, u, v, t)]_calls

\* C2: canonical ordering: two distinct authors that were paired by some
\* ingestion, in whatever argument order and whatever their hashes, have
\* exactly one Coauthor edge between them.
C2_CanonicalOrdering ==
    \A n1 \in DOMAIN authors, n2 \in DOMAIN authors :
        (n1 # n2 /\ CoauthorObjects(authors[n1].id, authors[n2].id) # {})
            => Cardinality(CoauthorEdges(gedges, authors[n1].id, authors[n2].id)) = 1

\* C3: evidence accumulates without duplication: no Coauthor edge lists a
\* title twice (in the graph attribute or in the edge object), and an
\* ingestion that meets a pair of authors that already has a Coauthor edge
\* updates that edge and adds no Coauthor edge for the pair.
C3_EvidenceAccumulation ==
    [][/\ \A i \in EdgesOfType(gedges', "Coauthor") :
             /\ NoDuplicateTitles(gedges'[i].data.coauthored_papers)
             /\ NoDuplicateTitles(
                    edges'[gedges'[i].data.edge_object].attributes.coauthored_paper_list)
       /\ \A n1 \in DOMAIN authors, n2 \in DOMAIN authors :
             CoauthorEdges(gedges, authors[n1].id, authors[n2].id) # {}
                 => CoauthorEdges(gedges', authors[n1].id, authors[n2].id)
                        = CoauthorEdges(gedges, authors[n1].id, authors[n2].id)]_calls

\* C4: one AuthorPaper edge per (author, paper) pair: a pair that has an
\* AuthorPaper edge has exactly one after any further ingestion (the edge is
\* overwritten, no parallel edge is added).
C4_OneAuthorPaperEdge ==
    [][\A u \in DOMAIN nodes, v \in DOMAIN nodes :
          CountEdges(gedges, u, v, "AuthorPaper") >= 1
              => CountEdges(gedges', u, v, "AuthorPaper") = 1]_calls

IdentityOps == {"get_or_create_author", "get_or_create_affiliation", "add_paper",
                "get_or_create_entity"}

\* The object an index holds for a key, by the call that reads the index
Held(b, op, name) ==
    CASE op = "get_or_create_author" -> b.authors[name].id
      [] op = "get_or_create_affiliation" -> b.affiliations[name].oid
      [] op = "add_paper" -> b.papers[name].oid
      [] op = "get_or_create_entity" -> b.entities[name].id

IndexSizes ==
    <<Cardinality(DOMAIN authors), Cardinality(DOMAIN affiliations),
      Cardinality(DOMAIN papers), Cardinality(DOMAIN entities)>>

\* C5: identity idempotence: a get_or_create_author, get_or_create_affiliation,
\* add_paper or get_or_create_entity call whose key is already in its index
\* returns the object the index held before the call (for add_paper not the
\* argument), and neither an index nor the node set grows.
C5_IdentityIdempotence ==
    [][(calls' = calls + 1 /\ last'.op \in IdentityOps /\ last'.existed) =>
          /\ ret'.oid = Held(Cur, last'.op, last'.name)
          /\ Held(Cur', last'.op, last'.name) = Held(Cur, last'.op, last'.name)
          /\ IndexSizes' = IndexSizes
          /\ Cardinality(DOMAIN nodes') = Cardinality(DOMAIN nodes)]_calls

\* A repeated add_paper returned the first-inserted Paper, not its argument
C5_Witness ==
    /\ last.op = "add_paper"
    /\ last.existed
    /\ ret.oid = papers[last.name].oid
    /\ ret.oid # last.arg

\* C6: the graph store holds exactly one node per identity key: as many nodes
\* as the four indices have keys, and the node of every key has the type and
\* the object of its index.
C6_OneNodePerIdentity ==
    /\ Cardinality(DOMAIN nodes) =
           Cardinality(DOMAIN authors) + Cardinality(DOMAIN affiliations)
               + Cardinality(DOMAIN papers) + Cardinality(DOMAIN entities)
    /\ \A n \in DOMAIN authors : nodes[authors[n].id].node_type = "Author"
    /\ \A n \in DOMAIN affiliations : nodes[n].node_type = "Affiliation"
    /\ \A t \in DOMAIN papers : nodes[t].node_type = "Paper"
    /\ \A n \in DOMAIN entities : nodes[entities[n].id].node_type = "Entity"

\* C7 (as amended), for a returned credit dict of a list with distinct names:
\* every weight is (1/order_i)/sum_k(1/order_k) rounded to 4 decimals; the
\* weights of n >= 1 authors sum to 1.0 within n * 0.00005, hence within 1e-3
\* for up to 20 authors; a smaller order never gets a smaller weight (strictly
\* larger for the list 1, 2, 3); equal orders get equal weights (0.5 each for
\* two authors without an order).
CreditOrders == [i \in 1..Len(creditIn) |-> OrderOf(creditIn[i])]
CreditWeights == [i \in 1..Len(creditIn) |-> creditOut.value[creditIn[i].Name]]

CreditShape(orders, w, L, den) ==
    /\ DOMAIN creditOut.value = {creditIn[i].Name : i \in 1..Len(creditIn)}
    /\ \A i \in 1..Len(orders) :
          2 * Abs(w[i] * den - 10000 * (L \div orders[i])) <= den
    /\ \A i, j \in 1..Len(orders) :
          /\ orders[i] < orders[j] => w[i] >= w[j]
          /\ orders[i] = orders[j] => w[i] = w[j]
    /\ orders = <<1, 2, 3>> => w[1] > w[2] /\ w[2] > w[3]
    /\ (Len(creditIn) = 2 /\ \A i \in 1..2 : creditIn[i].Author_Order = <<>>) =>
          w[1] = 5000 /\ w[2] = 5000

CreditShapeHolds ==
    CreditShape(CreditOrders, CreditWeights, LcmOrders(CreditOrders, 1),
                HarmonicDen(CreditOrders))

SumWithin(total, n) ==
    /\ n >= 1 => 2 * Abs(total - 10000) <= n
    /\ (n >= 1 /\ n <= 20) => Abs(total - 10000) <= 10

C7_HarmonicCreditAmended ==
    creditOut.returned =>
        /\ CreditShapeHolds
        /\ SumWithin(SumOver(CreditWeights, 1), Len(creditIn))

SumWithinThousandth(total, n) == n >= 1 => Abs(total - 10000) <= 10

\* C7 as claimed: the weights of every non-empty list sum to 1.0 within 1e-3.
C7_HarmonicCredit ==
    creditOut.returned =>
        /\ CreditShapeHolds
        /\ SumWithinThousandth(SumOver(CreditWeights, 1), Len(creditIn))

\* The credit of the list 1, 2, 3 was computed: 0.5455, 0.2727, 0.1818
C7_Witness ==
    /\ creditOut.returned
    /\ CreditOrders = <<1, 2, 3>>
    /\ CreditWeights = <<5455, 2727, 1818>>

\* C8: every AuthorPaper edge of the graph store carries as its weight the
\* harmonic credit held by its edge object.
C8_GraphWeightIsCredit ==
    \A i \in EdgesOfType(gedges, "AuthorPaper") :
        gedges[i].data.weight = edges[gedges[i].data.edge_object].attributes.weight

\* This step is a get_or_create_author(name, email) with a non-empty email
SuppliesEmail(name) ==
    /\ calls' = calls + 1
    /\ last'.op = "get_or_create_author"
    /\ last'.name = name
    /\ Truthy(last'.email)

\* C9: author email, first non-empty value wins: a non-empty Email never
\* changes; an empty one is set by the first call that supplies a non-empty
\* email and by nothing else; the Author object stays the same object, so the
\* change shows through every reference, and the node's email follows it.
C9_EmailFirstNonEmptyWins ==
    [][\A name \in DOMAIN authors :
          /\ authors'[name].id = authors[name].id
          /\ Truthy(authors[name].Email) => authors'[name].Email = authors[name].Email
          /\ (~Truthy(authors[name].Email) /\ SuppliesEmail(name)) =>
                /\ authors'[name].Email = last'.email
                /\ nodes'[authors[name].id].email = last'.email
          /\ (~Truthy(authors[name].Email) /\ ~SuppliesEmail(name)) =>
                authors'[name].Email = authors[name].Email]_calls

\* An author whose email is e1 was offered e2 and kept e1
C9_Witness ==
    /\ last.op = "get_or_create_author"
    /\ last.existed
    /\ last.email = "e2"
    /\ authors[last.name].Email = "e1"
    /\ nodes[authors[last.name].id].email = "e1"

\* C10: the graph holds at most one AuthorAffiliation edge per
\* (author, affiliation) pair.
C10_OneAuthorAffiliationEdge ==
    \A i \in EdgesOfType(gedges, "AuthorAffiliation"),
       j \in EdgesOfType(gedges, "AuthorAffiliation") :
        (gedges[i].source = gedges[j].source /\ gedges[i].target = gedges[j].target)
            => i = j

\* Two ingestions met the same (author, affiliation) pair: two edge objects
\* were built for it and the graph holds one AuthorAffiliation edge
C10_Witness ==
    \E i \in 1..Len(edges), j \in 1..Len(edges) :
        /\ i < j
        /\ edges[i].cls = "AuthorAffiliationEdge"
        /\ edges[j].cls = "AuthorAffiliationEdge"
        /\ edges[i].source.oid = edges[j].source.oid
        /\ edges[i].target.key = edges[j].target.key
        /\ CountEdges(gedges, edges[i].source.oid, edges[i].target.key,
                      "AuthorAffiliation") = 1

\* C11: the graph holds at most one PaperAffiliation edge per
\* (paper, affiliation) pair, also after the paper is ingested again.
C11_OnePaperAffiliationEdge ==
    \A i \in EdgesOfType(gedges, "PaperAffiliation"),
       j \in EdgesOfType(gedges, "PaperAffiliation") :
        (gedges[i].source = gedges[j].source /\ gedges[i].target = gedges[j].target)
            => i = j

\* C13: the graph holds at most one PaperEntity edge per (paper, concept)
\* pair; a repeated add_paper_entity_relation for a pair that has an edge
\* adds none and leaves the weight it was given on the existing edge.
C13_OnePaperEntityEdge ==
    [][(calls' = calls + 1 /\ last'.op = "add_paper_entity_relation") =>
          LET u == last'.name
              v == entities'[last'.entity].id
          IN  /\ CountEdges(gedges', u, v, "PaperEntity") = 1
              /\ \A i \in EdgesBetween(gedges', u, v) :
                    gedges'[i].data.edge_type = "PaperEntity"
                        => gedges'[i].data.weight = last'.weight]_calls

\* C14: the graph holds at most one Citation edge per ordered
\* (citing, cited) pair of papers.
C14_OneCitationEdge ==
    \A i \in EdgesOfType(gedges, "Citation"),
       j \in EdgesOfType(gedges, "Citation") :
        (gedges[i].source = gedges[j].source /\ gedges[i].target = gedges[j].target)
            => i = j

\* AffiliationCollaboration edges between two affiliations, in either direction
CollaborationEdges(g, x, y) ==
    {i \in EdgesOfType(g, "AffiliationCollaboration") :
        \/ g[i].source = x /\ g[i].target = y
        \/ g[i].source = y /\ g[i].target = x}

\* C12: the graph holds at most one AffiliationCollaboration edge per
\* unordered pair of distinct affiliations and none from an affiliation to
\* itself, whatever the iteration order of the affiliation set and whatever
\* the hashes; no such edge lists a paper twice.
C12_OneCollaborationEdge ==
    /\ \A i \in EdgesOfType(gedges, "AffiliationCollaboration") :
          /\ gedges[i].source # gedges[i].target
          /\ NoDuplicateTitles(gedges[i].data.collaboration_papers)
          /\ NoDuplicateTitles(
                 edges[gedges[i].data.edge_object].attributes.collaboration_paper_list)
    /\ \A x \in DOMAIN affiliations, y \in DOMAIN affiliations :
          x # y => Cardinality(CollaborationEdges(gedges, x, y)) <= 1

\* The cache holds a result of the stage for the title
Written(data, title, stage) ==
    /\ generate_paper_id(title) \in DOMAIN data
    /\ stage \in DOMAIN data[generate_paper_id(title)]
    /\ data[generate_paper_id(title)][stage] # <<>>

StageValue(data, title, stage) == data[generate_paper_id(title)][stage][1]

\* This step is a call of the operation
IsCall(op) == calls' = calls + 1 /\ last'.op = op

SameAuthor(a, d) ==
    /\ a.Name = d.Name
    /\ a.Affiliation = d.Affiliation
    /\ a.Email = d.Email
    /\ a.Author_Order = d.Author_Order

SameEntity(e, d) ==
    /\ e.name = d.name
    /\ e.field = d.field
    /\ e.description = d.description
    /\ e.entity_type = d.entity_type

\* The objects returned are the ones the cached dicts describe
RebuiltAuthors(value, author_dict) ==
    /\ value.kind = "AuthorList"
    /\ Len(value.Authors) = Len(author_dict.Authors)
    /\ \A i \in DOMAIN value.Authors : SameAuthor(value.Authors[i], author_dict.Authors[i])

RebuiltEntities(value, entity_dicts, relation_dicts) ==
    /\ Len(value.entities) = Len(entity_dicts)
    /\ \A i \in DOMAIN value.entities : SameEntity(value.entities[i], entity_dicts[i])
    /\ Len(value.relations) = Len(relation_dicts)
    /\ \A k \in DOMAIN value.relations :
          /\ \E i \in DOMAIN value.entities : value.relations[k].source = value.entities[i]
          /\ \E i \in DOMAIN value.entities : value.relations[k].target = value.entities[i]
          /\ value.relations[k].source.name = relation_dicts[k].source_name
          /\ value.relations[k].target.name = relation_dicts[k].target_name
          /\ value.relations[k].description = relation_dicts[k].description
          /\ value.relations[k].strength = relation_dicts[k].strength

OnDisk(file, title, stage, value) ==
    /\ Written(load_cache(file), title, stage)
    /\ StageValue(load_cache(file), title, stage) = value

EmptyAuthorResult(result) ==
    result.kind # "AuthorList" \/ Len(result.Authors) = 0
EmptyEntityResult(result) ==
    Len(result.entities) = 0 /\ Len(result.relations) = 0

\* C18: no negative caching: when the external extractor answers a miss with
\* an empty result, nothing is written for the stage, so the next call for
\* the title misses again and asks the extractor again.
C18_NoNegativeCaching ==
    [][/\ (IsCall("get_authors")
              /\ ~Written(cache_data, last'.name, "author_metadata")
              /\ EmptyAuthorResult(last'.result))
             => /\ ~Written(cache_data', last'.name, "author_metadata")
                /\ ~TruthyField(get_paper_data(CurCache', last'.name),
                                "author_metadata")
       /\ (IsCall("extract_entities_from_abstract")
              /\ ~Written(cache_data, last'.name, "entities")
              /\ EmptyEntityResult(last'.result))
             => /\ ~Written(cache_data', last'.name, "entities")
                /\ ~TruthyField(get_paper_data(CurCache', last'.name), "entities")]_calls

StageFields == {"author_metadata", "entities", "relations"}

\* The field is as it was: absent as before, or present with the same value
Kept(old, new, k) ==
    /\ (k \in DOMAIN new) = (k \in DOMAIN old)
    /\ k \in DOMAIN old => new[k] = old[k]

\* The field follows the argument: set to it when it is passed, kept when
\* the argument is None
Follows(old, new, k, passed, value) ==
    IF passed THEN k \in DOMAIN new /\ new[k] = value ELSE Kept(old, new, k)

\* C20: update_paper_data(title, ...) creates the record if it is absent and
\* overwrites the fields passed as non-None only: a field passed None is
\* kept as it was, the records of the other titles are unchanged, and no
\* stage field that was set is removed (of the fields that are not
\* arguments, title, paper_id and created_at are kept; the timestamps
\* updated_at and <stage>_extracted_at follow the update).
C20_UpdateMergesFields ==
    [][IsCall("update_paper_data") =>
          LET id == generate_paper_id(last'.name)
              old == IF id \in DOMAIN cache_data THEN cache_data[id] ELSE EmptyMap
              new == cache_data'[id]
          IN  /\ DOMAIN cache_data' = DOMAIN cache_data \cup {id}
              /\ \A other \in DOMAIN cache_data :
                    other # id => cache_data'[other] = cache_data[other]
              /\ new.title = last'.name
              /\ id \in DOMAIN cache_data =>
                    /\ Kept(old, new, "title")
                    /\ Kept(old, new, "paper_id")
                    /\ Kept(old, new, "created_at")
              /\ Follows(old, new, "abstract", last'.abstract # None, last'.abstract)
              /\ Follows(old, new, "field", last'.field # None, last'.field)
              /\ Follows(old, new, "author_metadata", last'.author_metadata # <<>>,
                         last'.author_metadata)
              /\ Follows(old, new, "entities", last'.entities # <<>>, last'.entities)
              /\ Follows(old, new, "relations", last'.relations # <<>>,
                         last'.relations)
              /\ \A k \in DOMAIN last'.kwargs :
                    Follows(old, new, k, last'.kwargs[k] # None, last'.kwargs[k])
              /\ \A k \in StageFields : k \in DOMAIN old => k \in DOMAIN new]_calls

\* A second update of a title passed entities and no author metadata: the
\* record holds the entities and still the author metadata of the first
C20_Witness ==
    /\ last.op = "update_paper_data"
    /\ calls = 2
    /\ last.author_metadata = <<>>
    /\ last.entities # <<>>
    /\ Written(cache_data, last.name, "author_metadata")
    /\ Written(cache_data, last.name, "entities")
    /\ cache_data[generate_paper_id(last.name)].created_at = 0
    /\ cache_data[generate_paper_id(last.name)].updated_at = 1


\* The graph as KnowledgeGraphBuilder() leaves it
EmptyGraph ==
    /\ DOMAIN nodes = {}
    /\ gedges = <<>>
    /\ edges = <<>>

NodesOfType(n, node_type) == {k \in DOMAIN n : n[k].node_type = node_type}
ObjectsOfClass(e, cls) == {i \in 1..Len(e) : e[i].cls = cls}

DistinctNames(author_list) ==
    \A i, j \in 1..Len(author_list) :
        author_list[i].Name = author_list[j].Name => i = j

AffiliationsOf(author_list) ==
    {author_list[i].Affiliation : i \in 1..Len(author_list)} \ {None, ""}

\* The call ingests a whole paper into the empty graph
IngestsIntoEmpty ==
    /\ EmptyGraph
    /\ last'.op = "process_single_paper"
    /\ calls' = calls + 1
    /\ Truthy(last'.md.title) /\ Truthy(last'.md.abstract)

\* C15: a paper ingested into the empty graph with n authors of distinct
\* names leaves n(n-1)/2 Coauthor edges (none for one author); the
\* Affiliation nodes and PaperAffiliation edges are those of the authors that
\* have an affiliation, so none of them and no AffiliationCollaboration edge
\* when no author has one; an empty author list adds no node but the Paper
\* and no edge, an empty concept list adds no Concept node and no edge of a
\* concept; the call reports success in each case.
C15_SinglePaperEdgeCounts ==
    [][IngestsIntoEmpty =>
        LET is_list == last'.authors.kind = "AuthorList"
            author_list == IF is_list THEN last'.authors.Authors ELSE <<>>
            n == Len(author_list)
            k == Cardinality(AffiliationsOf(author_list))
        IN  /\ ret' = TRUE
            /\ (is_list /\ DistinctNames(author_list)) =>
                  /\ Cardinality(EdgesOfType(gedges', "Coauthor")) * 2 = n * (n - 1)
                  /\ Cardinality(ObjectsOfClass(edges', "AuthorCoauthorEdge")) * 2
                         = n * (n - 1)
            /\ is_list =>
                  /\ NodesOfType(nodes', "Affiliation") = AffiliationsOf(author_list)
                  /\ {gedges'[i].target : i \in EdgesOfType(gedges', "PaperAffiliation")}
                         = AffiliationsOf(author_list)
                  /\ Cardinality(EdgesOfType(gedges', "PaperAffiliation")) = k
                  /\ Cardinality(EdgesOfType(gedges', "AffiliationCollaboration")) * 2
                         = k * (k - 1)
            /\ ~is_list =>
                  /\ NodesOfType(nodes', "Author") = {}
                  /\ NodesOfType(nodes', "Affiliation") = {}
            /\ (is_list /\ n = 0) =>
                  /\ DOMAIN nodes' \ NodesOfType(nodes', "Entity")
                         = {last'.md.title}
                  /\ EdgesOfType(gedges', "PaperEntity")
                         \cup EdgesOfType(gedges', "EntityRelation")
                         = 1..Len(gedges')
            /\ last'.entities = <<>> =>
                  /\ NodesOfType(nodes', "Entity") = {}
                  /\ EdgesOfType(gedges', "PaperEntity") = {}
                  /\ EdgesOfType(gedges', "EntityRelation") = {}
                  /\ ObjectsOfClass(edges', "PaperEntityEdge") = {}
                  /\ ObjectsOfClass(edges', "EntityToEntityEdge") = {}
            /\ (last'.entities = <<>> /\ n = 0) =>
                  /\ DOMAIN nodes' \subseteq {last'.md.title}
                  /\ gedges' = <<>>
                  /\ edges' = <<>>
    ]_calls

\* Three authors of distinct names, one without an affiliation, ingested into
\* the empty graph together with an empty concept list
C15_Witness ==
    /\ calls = 1
    /\ last.op = "process_single_paper"
    /\ ret = TRUE
    /\ last.authors.kind = "AuthorList"
    /\ Len(last.authors.Authors) = 3
    /\ last.entities = <<>>
    /\ Cardinality(EdgesOfType(gedges, "Coauthor")) = 3
    /\ NodesOfType(nodes, "Affiliation") = {"X", "M"}


\* The file holds the whole in-memory cache
FileHoldsMemory(file, data) ==
    /\ file.state = "json"
    /\ json_load(file.data) = data

\* C21: when update_paper_data returns, the cache file holds the whole
\* in-memory cache, also when the write to storage failed.
C21_FilePersistedOnReturn ==
    [][last'.op = "update_paper_data" /\ calls' = calls + 1
          => FileHoldsMemory(cache_file', cache_data')]_calls


\* A PaperCache built now over the file, with the extractors around it
FreshOver(file) ==
    [c |-> [cache_data |-> load_cache(file), cache_file |-> file, now |-> now],
     calls |-> extractor_calls, nextId |-> nextId]

\* What get_authors returns for the title from the cache x when the external
\* extractor would answer None
AuthorsFrom(x, title) == get_authors(x, title, [kind |-> "None"], "written").ret

StageFieldNames == {"author_metadata", "entities", "relations"}

ResultsKept(before, after, title) ==
    \A t \in Titles \ {title}, stage \in StageFieldNames :
        Written(before, t, stage)
            => /\ Written(after, t, stage)
               /\ StageValue(after, t, stage) = StageValue(before, t, stage)

C24_CorruptFileGivesEmptyCache ==
    [][/\ (IsCall("PaperCache") /\ cache_file.state = "corrupt")
             => /\ ret' = None
                /\ cache_data' = EmptyMap
                /\ \A title \in Titles : ~has_paper(CurCache', title)
       /\ (IsCall("update_paper_data") /\ cache_file.state = "corrupt"
              /\ cache_data = EmptyMap)
             => /\ has_paper(CurCache', last'.name)
                /\ last'.outcome = "written"
                      => FileHoldsMemory(cache_file', cache_data')
    ]_calls

\* A run that starts on a damaged file after an earlier run had a record
C24_Witness ==
    /\ last.op = "PaperCache"
    /\ cache_file.state = "corrupt"
    /\ cache_data = EmptyMap
    /\ now > 0
    /\ \A title \in Titles : ~has_paper(CurCache, title)

\* C25: once the loop of process_all_papers is over, every file has been
\* attempted exactly once and the success count is the number of files none of
\* whose stages failed (a paper whose extraction stage failed counts as failed).
C25_FailureIsolation ==
    (run.phase # "idle" /\ papers_done(run)) =>
        /\ \A i \in 1..Len(run.md_files) : run.attempts[i] = 1
        /\ run.success_count = Len(run.md_files) - Cardinality(run.failed)

\* The part of C25 the code keeps: every file is attempted exactly once
\* whatever happened to the files before it
EveryPaperAttemptedOnce ==
    (run.phase # "idle" /\ papers_done(run)) =>
        \A i \in 1..Len(run.md_files) : run.attempts[i] = 1

\* C26: a stage of a paper that fails (the extractor raises or returns an
\* error value, or the stage raises part-way) leaves the graph as it was
\* before the stage started: no node or edge of that stage, and the nodes and
\* edges of the earlier papers unchanged.
C26_FailedStageLeavesNoState ==
    [][(last'.op = "author_stage" /\ last'.failed)
           => (nodes' = nodes /\ gedges' = gedges /\ edges' = edges)]_calls

\* The steps of the run taken so far, and the papers among them
IsPaperStep(ev) == ev[1] \in {"authors", "concepts"}
StepsOf(kind) == {i \in 1..Len(run.log) : run.log[i][1] = kind}

\* C27: within a paper the author ingestion comes before the concept
\* ingestion; no step of a later paper comes before a step of an earlier one;
\* the resolution pass starts after every paper has been processed; the export
\* comes after every merge of the resolution pass.
C27_PipelineOrdering ==
    run.phase # "idle" =>
        LET log == run.log
        IN  /\ \A i \in StepsOf("concepts") :
                   \E j \in 1..(i - 1) : log[j] = <<"authors", log[i][2]>>
            /\ \A i, j \in 1..Len(log) :
                   (IsPaperStep(log[i]) /\ IsPaperStep(log[j]) /\ log[i][2] < log[j][2])
                       => i < j
            /\ \A i \in StepsOf("resolve") :
                   /\ \A f \in 1..Len(run.md_files) : run.attempts[f] = 1
                   /\ \A j \in 1..Len(log) : IsPaperStep(log[j]) => j < i
            /\ \A i \in StepsOf("export") :
                   /\ \A g \in 1..Len(run.groups) :
                          \E j \in 1..(i - 1) : log[j] = <<"merge", g>>
                   /\ \A j \in StepsOf("merge") : j < i /\ \A r \in StepsOf("resolve") : r < j

\* A run over two papers, each through both stages, with a group merged, has
\* been exported
C27_Witness ==
    /\ run.phase = "exported"
    /\ Len(run.md_files) = 2
    /\ StepsOf("authors") # {} /\ Cardinality(StepsOf("concepts")) = 2
    /\ StepsOf("merge") # {}

\* The nodes of a type, the edges at a node
TypedNodes(n, node_type) ==
    {k \in DOMAIN n : "node_type" \in DOMAIN n[k] /\ n[k].node_type = node_type}
IncidentEdges(g, id) == {i \in 1..Len(g) : g[i].source = id \/ g[i].target = id}

\* The end of an edge after the nodes of Bs have been merged into A
MergedEnd(id, Bs, A) == IF id \in Bs THEN A ELSE id

\* C28: merging concepts into the canonical concept A of their group keeps
\* every edge, with its attributes, between the same ends except that an end
\* at a merged node is now at A; the merged nodes are gone and no edge refers
\* to them; the number of edges is unchanged.  For a group of two concepts
\* with one PaperConcept edge each, one Concept node is left and both
\* PaperConcept edges point at it.
C28_MergePreservesEdges ==
    [][last'.op = "merge_group" =>
          LET A == entities[last'.canonical_name].id
              Bs == {entities[name].id : name \in
                        {last'.sources[i] : i \in 1..Len(last'.sources)}}
          IN  /\ Len(gedges') = Len(gedges)
              /\ \A i \in 1..Len(gedges) :
                     /\ gedges'[i].data = gedges[i].data
                     /\ gedges'[i].source = MergedEnd(gedges[i].source, Bs, A)
                     /\ gedges'[i].target = MergedEnd(gedges[i].target, Bs, A)
              /\ \A B \in Bs : B \notin DOMAIN nodes' /\ IncidentEdges(gedges', B) = {}
              /\ A \in DOMAIN nodes' /\ nodes'[A] = nodes[A]
              /\ DOMAIN entities' = DOMAIN entities \ {last'.sources[i] : i \in 1..Len(last'.sources)}
              /\ (/\ Cardinality(Bs) = 1
                  /\ TypedNodes(nodes, "Entity") = Bs \cup {A}
                  /\ \A n \in Bs \cup {A} :
                         /\ Cardinality(IncidentEdges(gedges, n)) = 1
                         /\ IncidentEdges(gedges, n) \subseteq EdgesOfType(gedges, "PaperEntity"))
                 => /\ TypedNodes(nodes', "Entity") = {A}
                    /\ Cardinality(EdgesOfType(gedges', "PaperEntity")) = 2
                    /\ \A i \in EdgesOfType(gedges', "PaperEntity") : gedges'[i].target = A
    ]_calls

\* A group of two concepts with one PaperConcept edge each has been merged:
\* one Concept node with the two edges
C28_Witness ==
    /\ last.op = "merge_group"
    /\ Len(last.sources) = 1
    /\ DOMAIN entities = {last.canonical_name}
    /\ TypedNodes(nodes, "Entity") = {entities[last.canonical_name].id}
    /\ Cardinality(EdgesOfType(gedges, "PaperEntity")) = 2
    /\ \A i \in EdgesOfType(gedges, "PaperEntity") :
           gedges[i].target = entities[last.canonical_name].id

\* C29: the canonical name of a merged group is a function of the group
\* alone: whatever the order in which the names of the group are listed, the
\* resolution pass picks the name it picked, also when several names share the
\* shortest length.
C29_CanonicalChoiceDeterministic ==
    [][last'.op = "merge_group" =>
          \A member_list \in Orderings(last'.group) :
              sorted_by_len(member_list)[1] = last'.canonical_name]_calls

\* The part of C29 the code keeps: the canonical name is one of the shortest
\* names of the group, and the only possible choice when no other name is as
\* short
CanonicalIsAShortestName ==
    [][last'.op = "merge_group" =>
          /\ last'.canonical_name \in last'.group
          /\ \A n \in last'.group : NameLen(last'.canonical_name) <= NameLen(n)
          /\ (\A n \in last'.group \ {last'.canonical_name} :
                  NameLen(last'.canonical_name) < NameLen(n))
                 => \A member_list \in Orderings(last'.group) :
                        sorted_by_len(member_list)[1] = last'.canonical_name]_calls

NodeTypes == {"Paper", "Author", "Affiliation", "Entity"}
RunEdgeTypes == EdgeTypes \cup {"EntityRelation"}

\* What get_statistics reports for a node type and for an edge type
ReportedNodes(stats, node_type) ==
    CASE node_type = "Paper" -> stats.node_counts.papers
      [] node_type = "Author" -> stats.node_counts.authors
      [] node_type = "Affiliation" -> stats.node_counts.affiliations
      [] node_type = "Entity" -> stats.node_counts.entities
ReportedEdges(stats, edge_type) ==
    IF edge_type \in DOMAIN stats.edge_counts THEN stats.edge_counts[edge_type] ELSE 0

\* C30: the analyzer loaded from the file that export_to_json wrote reports,
\* for every node type and every edge type, the number of nodes and of edges
\* (parallel edges counted one by one) that the graph of the builder has.
C30_ExportImportFidelity ==
    run.phase = "loaded" =>
        LET stats == get_statistics(run.analyzer)
        IN  /\ \A t \in NodeTypes :
                   ReportedNodes(stats, t) = Cardinality(TypedNodes(nodes, t))
            /\ \A t \in RunEdgeTypes :
                   ReportedEdges(stats, t) = Cardinality(EdgesOfType(gedges, t))
            /\ DOMAIN stats.edge_counts \subseteq RunEdgeTypes
            /\ stats.total_nodes = Cardinality(DOMAIN nodes)
            /\ stats.total_edges = Len(gedges)

\* A graph with nodes of the four types, a Coauthor edge and two parallel
\* edges has been exported and loaded
C30_Witness ==
    /\ run.phase = "loaded"
    /\ \A t \in NodeTypes : TypedNodes(nodes, t) # {}
    /\ EdgesOfType(gedges, "Coauthor") # {}
    /\ \E i, j \in 1..Len(gedges) :
           i # j /\ gedges[i].source = gedges[j].source
                 /\ gedges[i].target = gedges[j].target

\* The evidence-list attributes an edge of the graph carries
EvidenceKeys(data) == PaperListKeys \cap DOMAIN data

\* C31: in the exported document no node has a node_object, no link has an
\* edge_object, and every evidence list of a link is the list of the titles
\* of the papers of the in-memory evidence list, in the same order.
C31_ExportedDocumentIsFlat ==
    run.phase \in {"exported", "loaded"} =>
        /\ \A node \in run.file.nodes : "node_object" \notin DOMAIN node
        /\ Len(run.file.links) = Len(gedges)
        /\ \A i \in 1..Len(gedges) :
               /\ "edge_object" \notin DOMAIN run.file.links[i]
               /\ \A k \in EvidenceKeys(gedges[i].data) :
                      /\ k \in DOMAIN run.file.links[i]
                      /\ Len(run.file.links[i][k]) = Len(gedges[i].data[k])
                      /\ \A j \in 1..Len(gedges[i].data[k]) :
                             /\ run.file.links[i][k][j] \in Titles
                             /\ run.file.links[i][k][j] = gedges[i].data[k][j].key

\* A graph with an evidence list of two papers has been exported
C31_Witness ==
    /\ run.phase = "exported"
    /\ \E i \in 1..Len(gedges) :
           \E k \in EvidenceKeys(gedges[i].data) :
               /\ Len(gedges[i].data[k]) = 2
               /\ run.file.links[i][k] = <<"T", "X">>

\* Every caller has returned
AllReturned ==
    /\ threads.mode = "threads"
    /\ \A t \in Threads : threads.th[t].pc = "done"

\* The Author nodes of a name, the Coauthor edges between two names
AuthorNodesOf(name) ==
    {n \in TypedNodes(nodes, "Author") : nodes[n].node_object.key = name}
CoauthorEdgesOf(name1, name2) ==
    {i \in EdgesOfType(gedges, "Coauthor") :
        \/ gedges[i].source \in AuthorNodesOf(name1)
               /\ gedges[i].target \in AuthorNodesOf(name2)
        \/ gedges[i].source \in AuthorNodesOf(name2)
               /\ gedges[i].target \in AuthorNodesOf(name1)}

OneNodeAndOneEdgePerPair ==
    /\ \A name \in {"a", "b"} : Cardinality(AuthorNodesOf(name)) = 1
    /\ Cardinality(CoauthorEdgesOf("a", "b")) = 1

\* C32: when the callers take one lock around their calls, two ingestions
\* that share an author pair leave one Author node per name and one Coauthor
\* edge for the pair, as ingesting one after the other does.
C32_LockedIngestionIsSequential ==
    (AllReturned /\ threads.locked) => OneNodeAndOneEdgePerPair

\* Under the lock, with the pair given in the same order by both callers or
\* with authors of different hashes, the pair has one node per name and one
\* edge
LockedIngestionOfOrderedPair ==
    (/\ AllReturned
     /\ threads.locked
     /\ \/ \A t \in Threads : threads.th[t].author_list = threads.th[1].author_list
        \/ authors["a"].hash # authors["b"].hash)
        => OneNodeAndOneEdgePerPair

\* Without the lock the callers never leave two Author nodes for a name
NoRaceOnAuthors ==
    (/\ AllReturned
     /\ ~threads.locked
     /\ \A t \in Threads : threads.th[t].author_list = threads.th[1].author_list)
        => \A name \in {"a", "b"} : Cardinality(AuthorNodesOf(name)) = 1

\* Without the lock the callers never leave two Coauthor edges for the pair
\* of two Author nodes
NoRaceOnCoauthorEdge ==
    (/\ AllReturned
     /\ ~threads.locked
     /\ \A t \in Threads : threads.th[t].author_list = threads.th[1].author_list
     /\ \A name \in {"a", "b"} : Cardinality(AuthorNodesOf(name)) = 1)
        => Cardinality(CoauthorEdgesOf("a", "b")) = 1

ClearOps == {"clear_cache", "clear_cache_for_paper"}

\* C33: no step removes a node of the graph or a key of an identity index;
\* a clearing of the cache removes the cached results it is asked to remove
\* (when the write goes through, from the file as well) and leaves the nodes,
\* the edges and the indices as they are.  Every call counts in calls, so the
\* steps that leave calls alone are the stuttering steps.
C33_EntitiesNeverDeleted ==
    [][/\ DOMAIN nodes \subseteq DOMAIN nodes'
       /\ DOMAIN authors \subseteq DOMAIN authors'
       /\ DOMAIN affiliations \subseteq DOMAIN affiliations'
       /\ DOMAIN papers \subseteq DOMAIN papers'
       /\ DOMAIN entities \subseteq DOMAIN entities'
       /\ last'.op \in ClearOps =>
              /\ nodes' = nodes /\ gedges' = gedges /\ edges' = edges
              /\ authors' = authors /\ affiliations' = affiliations
              /\ papers' = papers /\ entities' = entities
       /\ (last'.op = "clear_cache" /\ last'.confirm) => DOMAIN cache_data' = {}
       /\ last'.op = "clear_cache_for_paper" =>
              generate_paper_id(last'.name) \notin DOMAIN cache_data'
      ]_calls

\* The cache of a paper whose nodes are in the graph has been cleared
C33_Witness ==
    /\ last.op = "clear_cache"
    /\ last.confirm
    /\ "T" \in DOMAIN papers
    /\ DOMAIN authors # {}
    /\ DOMAIN entities # {}
    /\ DOMAIN cache_data = {}

\* The AuthorPaper edges of the graph store
AuthorPaperEdges == EdgesOfType(gedges, "AuthorPaper")

\* The AuthorPaper edges the last call added, in the order of its author list
LastAuthorPaperEdges ==
    LET all == SelectSeq([i \in 1..Len(gedges) |-> i],
                         LAMBDA i : gedges[i].data.edge_type = "AuthorPaper")
        n == Len(last.author_list)
    IN  [k \in 1..n |-> all[Len(all) - n + k]]

\* C34: every AuthorPaper edge of the graph has author_order >= 1
C34_AuthorOrderAtLeastOne ==
    \A i \in AuthorPaperEdges : gedges[i].data.author_order >= 1

\* An author given without an order, or with the order 0, gets the order 1 on
\* the edge
UnspecifiedOrderIsOne ==
    (last.op = "process_author_list_and_paper" /\ ~credit_raises(last.author_list))
        => \A k \in 1..Len(last.author_list) :
              last.author_list[k].Author_Order \in {<<>>, <<0>>}
                  => gedges[LastAuthorPaperEdges[k]].data.author_order = 1

\* The order on the edge is the order the credit was computed from: the edge
\* object's weight is the credit of that order among the orders on the edges
CreditFromEdgeOrders ==
    (last.op = "process_author_list_and_paper" /\ ~credit_raises(last.author_list)
        /\ \A j, k \in 1..Len(last.author_list) :
              j # k => last.author_list[j].Name # last.author_list[k].Name)
        => LET es == LastAuthorPaperEdges
               orders == [k \in 1..Len(es) |-> gedges[es[k]].data.author_order]
               L == LcmOrders(orders, 1)
               den == HarmonicDen(orders)
           IN  \A k \in 1..Len(es) :
                  /\ edges[gedges[es[k]].data.edge_object].attributes.author_order
                        = orders[k]
                  /\ \E up \in BOOLEAN :
                        edges[gedges[es[k]].data.edge_object].attributes.weight
                            = Round4(L \div orders[k], den, up)

\* get_author_collaborators: one entry per AuthorCoauthorEdge of self.edges
\* that has the author at one end
get_author_collaborators(b, author_name) ==
    IF author_name \notin DOMAIN b.authors THEN <<>>
    ELSE LET author == b.authors[author_name]
             at(k) == b.edges[k]
             hits == SelectSeq([k \in 1..Len(b.edges) |-> k],
                        LAMBDA k : /\ at(k).cls = "AuthorCoauthorEdge"
                                   /\ \/ at(k).source.oid = author.id
                                      \/ at(k).target.oid = author.id)
         IN  [n \in 1..Len(hits) |->
                 LET edge == at(hits[n])
                     coauthor == IF edge.source.oid = author.id THEN edge.target
                                 ELSE edge.source
                 IN  [name |-> coauthor.key,
                      papers_count |-> Len(edge.attributes.coauthored_paper_list)]]

\* The edges of the graph store whose edge_object is the k-th object of self.edges
GraphEdgesOf(k) == {i \in 1..Len(gedges) : gedges[i].data.edge_object = k}

\* C35: every object of self.edges is the edge_object of exactly one edge of the
\* graph, and every edge of the graph carries an object of self.edges
C35_EdgeListMatchesGraph ==
    /\ \A k \in 1..Len(edges) : Cardinality(GraphEdgesOf(k)) = 1
    /\ \A i \in 1..Len(gedges) : gedges[i].data.edge_object \in 1..Len(edges)

\* Every edge of the graph carries an object of self.edges, and no two edges
\* of the graph carry the same one
GraphEdgesHaveTheirOwnObject ==
    /\ \A k \in 1..Len(edges) : Cardinality(GraphEdgesOf(k)) <= 1
    /\ \A i \in 1..Len(gedges) : gedges[i].data.edge_object \in 1..Len(edges)

\* get_author_collaborators names each collaborator once
CollaboratorsReportedOnce ==
    \A name \in Names :
        LET collaborators == get_author_collaborators(Cur, name)
        IN  \A m, n \in 1..Len(collaborators) :
                m # n => collaborators[m].name # collaborators[n].name

\* C36: no Coauthor edge of the graph has the same author at both ends
C36_NoCoauthorSelfLoop ==
    \A i \in EdgesOfType(gedges, "Coauthor") : gedges[i].source # gedges[i].target

\* The last author list names every author once
LastListHasDistinctNames ==
    \A j, k \in 1..Len(last.author_list) :
        j # k => last.author_list[j].Name # last.author_list[k].Name

\* A Coauthor self-loop comes from a list that names an author twice: as long
\* as every list ingested so far named its authors once, there is none
SelfLoopOnlyFromRepeatedName ==
    [][(C36_NoCoauthorSelfLoop
          /\ (last'.op = "process_author_list_and_paper" => LastListHasDistinctNames'))
        => C36_NoCoauthorSelfLoop']_calls

\* The titles of a list of papers
TitlesOf(list) == {list[k].key : k \in 1..Len(list)}

\* C37: the evidence list on a Coauthor or AffiliationCollaboration edge of the
\* graph holds the papers of the list of the edge object attached to it
C37_EvidenceAttributeMatchesObject ==
    /\ \A i \in EdgesOfType(gedges, "Coauthor") :
          TitlesOf(gedges[i].data.coauthored_papers)
              = TitlesOf(edges[gedges[i].data.edge_object]
                             .attributes.coauthored_paper_list)
    /\ \A i \in EdgesOfType(gedges, "AffiliationCollaboration") :
          TitlesOf(gedges[i].data.collaboration_papers)
              = TitlesOf(edges[gedges[i].data.edge_object]
                             .attributes.collaboration_paper_list)

\* The same for the Coauthor edges alone, list for list
CoauthorListsEqual ==
    \A i \in EdgesOfType(gedges, "Coauthor") :
        gedges[i].data.coauthored_papers
            = edges[gedges[i].data.edge_object].attributes.coauthored_paper_list

\* The same for the AffiliationCollaboration edges alone, list for list
CollaborationListsEqual ==
    \A i \in EdgesOfType(gedges, "AffiliationCollaboration") :
        gedges[i].data.collaboration_papers
            = edges[gedges[i].data.edge_object].attributes.collaboration_paper_list

\* get_authors for the title would not ask the external extractor, whatever
\* the extractor would answer
AuthorsAnsweredFromCache(title) ==
    \A result \in AuthorResults :
        get_authors(CurX, title, result, "written").x.calls.authors
            = extractor_calls.authors

\* extract_entities_from_abstract for the title would not ask the external
\* extractor
EntitiesAnsweredFromCache(title) ==
    \A paper \in {p \in CachePapers : p.Title = title}, result \in EntityResults :
        extract_entities_from_abstract(CurX, paper, result, "written").x.calls.entities
            = extractor_calls.entities

\* C38: in a cache written by the caching extractors alone,
\* has_author_metadata(title) is true exactly when get_authors(title) would
\* answer from the cache, and has_entities(title) exactly when
\* extract_entities_from_abstract would.
C38_SignalAgreesWithHitTest ==
    \A title \in Titles :
        /\ has_author_metadata(CurCache, title) <=> AuthorsAnsweredFromCache(title)
        /\ has_entities(CurCache, title) <=> EntitiesAnsweredFromCache(title)

\* get_authors has just answered T from the cache (the extractor would have
\* answered None), the record of T has no entities, and the record of X has
\* entities and no author metadata
C38_Witness ==
    /\ last.op = "get_authors"
    /\ last.name = "T"
    /\ last.result.kind = "None"
    /\ ret.kind = "AuthorList"
    /\ has_author_metadata(CurCache, "T") /\ ~has_entities(CurCache, "T")
    /\ has_entities(CurCache, "X") /\ ~has_author_metadata(CurCache, "X")

====
